---- MODULE Spec2Model ----
(***************************************************************************)
(* A model of the paginated execution engine of dynogels:                  *)
(*   - utils.paginatedRequest / utils.mergeResults (query / scan exec())   *)
(*   - batch.getItems (bucketing, unprocessed-key retry)                   *)
(* JavaScript objects are records whose DOMAIN is the set of the keys the  *)
(* object has: an absent key is a key that is not in the DOMAIN.           *)
(***************************************************************************)
EXTENDS Integers, Sequences, FiniteSets, TLC

VARIABLES
  \* ---- query / scan exec(): the builder (op) and one paginatedRequest call
  opRequest,         \* op.request: the builder's mutable request document
  loadAll,           \* op.options.loadAll
  pc,                \* position of the paginatedRequest coroutine
  lastEvaluatedKey,  \* local of paginatedRequest
  retry,             \* local of paginatedRequest
  responses,         \* local of paginatedRequest: the pages collected
  result,            \* what exec() resolved with, once it has
  error,             \* what exec() rejected with, once it has
  sent,              \* gateway log: the requests of the current exec(), in order
  outcomes,          \* gateway log: what the gateway answered to each of them
  execs,             \* number of exec() calls made on the builder
  calls,             \* number of gateway calls made in all
  \* ---- batch getItems(keys, options)
  inputKeys,         \* the keys as the caller passed them (never written)
  inputOptions,      \* the options as the caller passed them (never written)
  arrays,            \* the heap of arrays: "keys" is the caller's array
  callerOptions,     \* the caller's options object
  gpc,               \* position of the getItems call
  bucket,            \* one paginatedRequest coroutine per bucket
  bsent,             \* gateway log: the batchGet calls, in the order issued
  arrivals,          \* gateway log: the calls answered, in the order answered
  gresult,           \* what getItems resolved with, once it has
  gerror,            \* what getItems rejected with, once it has
  \* ---- utils.streamRequest(op, runRequestFunc); it shares the builder, the
  \* ---- gateway log and the name of its local lastEvaluatedKey with exec()
  performRequest,    \* the local performRequest
  reading,           \* the Readable's flag: _read was called and no push yet
  timers,            \* wait(1000) timers pending
  pushed,            \* what was pushed to the consumer, in order
  emitted,           \* the errors emitted on the stream
  \* ---- Table.update(item, options)
  updSchema,         \* the table's schema: hashKey, rangeKey, timestamps
  updItemIn,         \* the item as the caller passed it (never written)
  updItem,           \* the caller's item object
  updOptions,        \* the caller's options object
  upc,               \* position of the update call
  updParams,         \* the request handed to sendRequest('update', ...)
  updated,           \* what update resolved with, once it has
  uerror,            \* what update rejected with, once it has
  hookAt,            \* the before-listeners of 'update' that have run
  \* ---- the table: its listeners and what was called on it and its gateway
  beforeListeners,   \* table._before: the listeners of each event, in order
  trace,             \* log: the listeners run, the gateway calls, the after events
  \* ---- Table.create(item, options) and Table.destroy(hashKey, options)
  method,            \* the call made: "update", "create" or "destroy"
  crArg,             \* the first argument: one item, or an array of items
  crOptionsIn,       \* the options as the caller passed them (never written)
  crOptions,         \* the caller's options object
  cpc,               \* position of the call
  crco,              \* the createItem coroutines (one coroutine for destroy)
  cresult,           \* what the call resolved with, once it has
  cerror,            \* what the call rejected with, once it has
  \* ---- createTables(models, config)
  nmodels,           \* the number of models, in the order of their keys
  tpc,               \* position of createTables: what it is waiting for
  tat,               \* the model it is at
  tdata,             \* waitTillActive: data holds a description
  tout,              \* updateTable requests of syncIndexes not yet answered
  tlog,              \* log: the calls, the answers and the waits, in order
  terror,            \* what createTables rejected with, once it has
  \* ---- Scaler(options), its setters and exec()
  scNew,             \* the call of Scaler is made with new
  scArg,             \* the options object of the caller
  scaler,            \* this.options of the instance, once there is one
  scpc,              \* position: the constructor, the setters, exec
  scTargets,         \* log: the calls of autoscaling.registerScalableTarget
  scError,           \* what the constructor threw or exec rejected with
  \* ---- a second exec() on the same builder, while the first may be running
  exec2              \* its paginatedRequest coroutine: position, locals, log

pagVars == <<opRequest, loadAll, pc, lastEvaluatedKey, retry, responses,
             result, error, sent, outcomes, execs, calls>>

batchVars == <<inputKeys, inputOptions, arrays, callerOptions, gpc, bucket,
               bsent, arrivals, gresult, gerror>>

streamVars == <<performRequest, reading, timers, pushed, emitted>>

updateVars == <<updSchema, updItemIn, updItem, updOptions, upc, updParams,
                updated, uerror, hookAt>>

tableVars == <<beforeListeners, trace>>

createVars == <<method, crArg, crOptionsIn, crOptions, cpc, crco, cresult,
                cerror>>

callVars == <<updateVars, tableVars, createVars>>

ctVars == <<nmodels, tpc, tat, tdata, tout, tlog, terror>>

scVars == <<scNew, scArg, scaler, scpc, scTargets, scError>>

vars == <<pagVars, batchVars, streamVars, callVars, ctVars, scVars, exec2>>

----------------------------------------------------------------------------
\* Bounds of the model.
MaxCalls == 4      \* gateway calls after which the gateway only answers finally
MaxExecs == 2      \* exec() calls on one builder
MaxKeys == 250     \* keys passed to getItems
MaxFollowUps == 2  \* batchGet answers that make a bucket send another request
MaxListeners == 2  \* listeners registered for one event of the table
MaxSuffix == 4     \* value aliases tried for one attribute: :p, :p_2, ...

\* JavaScript helpers.
Has(obj, key) == key \in DOMAIN obj
Put(obj, key, val) ==
  [k \in DOMAIN obj \cup {key} |-> IF k = key THEN val ELSE obj[k]]
Del(obj, key) == [k \in DOMAIN obj \ {key} |-> obj[k]]
Null == "null"
NoValue == [none |-> TRUE]    \* exec() has not resolved / rejected

TableName == "accounts"
Cursors == {"c1", "c2"}

\* value || 0
OrZero(obj, key) == IF Has(obj, key) THEN obj[key] ELSE 0

----------------------------------------------------------------------------
\* The gateway: what a query / scan call can answer.

\* The items of the page answered to gateway call number n: n items told
\* apart by the call they came from.
PageItems(call, n) == [i \in 1..n |-> <<call, i>>]

\* Page bodies the gateway answers with (LastEvaluatedKey is added apart).
PageShapes(call) ==
  { [x \in {} |-> 0],
    [Items |-> PageItems(call, 0), Count |-> 0, ScannedCount |-> 1,
     ConsumedCapacity |-> [CapacityUnits |-> 1, TableName |-> TableName]],
    [Items |-> PageItems(call, 1), Count |-> 1, ScannedCount |-> 0,
     ConsumedCapacity |-> [CapacityUnits |-> 0, TableName |-> TableName]],
    [Items |-> PageItems(call, 1), Count |-> 1, ScannedCount |-> 2],
    [Items |-> PageItems(call, 2), Count |-> 2,
     ConsumedCapacity |-> [CapacityUnits |-> 1, TableName |-> TableName]] }

Pages(call) ==
  PageShapes(call) \cup
  { Put(s, "LastEvaluatedKey", c) : s \in PageShapes(call), c \in Cursors }

Errors ==
  { [code |-> "ProvisionedThroughputExceededException", retryable |-> TRUE],
    [code |-> "ValidationException", retryable |-> FALSE],
    [code |-> "NetworkingError"] }

\* the flag the gateway has put on an error
Flagged(err) == Has(err, "retryable") /\ err.retryable

----------------------------------------------------------------------------
\* The builder (Op): startKey, clearStartKey, buildRequest.
startKey(request, key) == Put(request, "ExclusiveStartKey", key)
clearStartKey(request) == Del(request, "ExclusiveStartKey")
buildRequest(request) == Put(request, "TableName", TableName)

----------------------------------------------------------------------------
\* utils.mergeResults
mergeInit(tableName) ==
  [Items |-> <<>>,
   ConsumedCapacity |-> [CapacityUnits |-> 0, TableName |-> tableName],
   Count |-> 0,
   ScannedCount |-> 0]

\* mutant: the page's Items replace the Items merged so far
mergeOneOverwrite(memo, resp) ==
  [memo EXCEPT
     !.Count = @ + OrZero(resp, "Count"),
     !.ScannedCount = @ + OrZero(resp, "ScannedCount"),
     !.Items = IF Has(resp, "Items") THEN resp.Items ELSE @]

\* mutant: the first cursor merged is kept
mergeOneFirstKey(memo, resp) ==
  LET counted == [memo EXCEPT
        !.Count = @ + OrZero(resp, "Count"),
        !.ScannedCount = @ + OrZero(resp, "ScannedCount"),
        !.ConsumedCapacity.CapacityUnits =
           @ + (IF Has(resp, "ConsumedCapacity")
                THEN OrZero(resp.ConsumedCapacity, "CapacityUnits") ELSE 0),
        !.Items = IF Has(resp, "Items") THEN @ \o resp.Items ELSE @]
  IN IF Has(resp, "LastEvaluatedKey") /\ ~Has(memo, "LastEvaluatedKey")
     THEN Put(counted, "LastEvaluatedKey", resp.LastEvaluatedKey)
     ELSE counted

mergeOne(memo, resp) ==
  LET counted == [memo EXCEPT
        !.Count = @ + OrZero(resp, "Count"),
        !.ScannedCount = @ + OrZero(resp, "ScannedCount"),
        !.ConsumedCapacity.CapacityUnits =
           @ + (IF Has(resp, "ConsumedCapacity")
                THEN OrZero(resp.ConsumedCapacity, "CapacityUnits") ELSE 0),
        !.Items = IF Has(resp, "Items") THEN @ \o resp.Items ELSE @]
  IN IF Has(resp, "LastEvaluatedKey")
     THEN Put(counted, "LastEvaluatedKey", resp.LastEvaluatedKey)
     ELSE counted

RECURSIVE mergeReduce(_, _)
mergeReduce(resps, memo) ==
  IF resps = <<>> THEN memo
  ELSE mergeReduce(Tail(resps), mergeOne(memo, Head(resps)))

\* mutant: the zero sums are left in the aggregate
mergeKeepZero(merged) == merged

mergeDropZero(merged) ==
  LET noCap == IF merged.ConsumedCapacity.CapacityUnits = 0
               THEN Del(merged, "ConsumedCapacity") ELSE merged
  IN IF noCap.ScannedCount = 0 THEN Del(noCap, "ScannedCount") ELSE noCap

mergeResults(resps, tableName) ==
  mergeDropZero(mergeReduce(resps, mergeInit(tableName)))

----------------------------------------------------------------------------
\* utils.paginatedRequest, one action per stretch between two suspensions.

\* mutant: the loop goes on while there is a cursor, whatever loadAll is
whileCondIgnoreLoadAll(la, lek, rt) == (lek # Null) \/ rt

\* the condition of the while loop
whileCond(la, lek, rt) == (la /\ lek # Null) \/ rt

\* The top of the loop, reached with the locals as given: either the next
\* request is built from the builder and handed to the gateway, or the loop
\* ends and the merged pages are returned.
LoopTop(la, lek, rt, resps, request) ==
  IF whileCond(la, lek, rt)
  THEN /\ pc' = "wait"
       /\ sent' = Append(sent, buildRequest(request))
       /\ calls' = calls + 1
       /\ result' = result
  ELSE /\ pc' = "done"
       /\ sent' = sent
       /\ calls' = calls
       /\ result' = mergeResults(resps, TableName)

\* exec() is called on the builder: the locals are initialised and the loop
\* is entered.
Exec ==
  /\ pc \in {"idle", "done", "failed"}
  /\ execs < MaxExecs
  /\ \E la \in BOOLEAN :
       /\ loadAll' = la
       /\ lastEvaluatedKey' = Null
       /\ responses' = <<>>
       /\ retry' = TRUE
       /\ execs' = execs + 1
       /\ error' = NoValue
       /\ outcomes' = <<>>
       /\ pc' = "wait"
       /\ sent' = <<buildRequest(opRequest)>>
       /\ calls' = calls + 1
       /\ result' = NoValue
       /\ UNCHANGED <<opRequest, batchVars, streamVars, callVars, ctVars, scVars, exec2>>

\* the key a page leaves in lastEvaluatedKey
pageKey(resp) ==
  IF Has(resp, "LastEvaluatedKey") THEN resp.LastEvaluatedKey ELSE Null

\* mutant: the cursor of a page is not handed to the builder
afterPageNoStartKey(request, lek) ==
  IF lek # Null THEN request ELSE clearStartKey(request)

\* mutant: a page without a cursor leaves the builder's start key in place
afterPageNotCleared(request, lek) ==
  IF lek # Null THEN startKey(request, lek) ELSE request

\* what the builder's request becomes after a page
afterPage(request, lek) ==
  IF lek # Null THEN startKey(request, lek) ELSE clearStartKey(request)

\* what the collected pages become after a page
collect(resps, resp) == Append(resps, resp)

\* The gateway answers the request in flight with a page.
PageOk ==
  /\ pc = "wait"
  /\ \E resp \in Pages(Len(sent)) :
       /\ Has(resp, "LastEvaluatedKey") => calls < MaxCalls
       /\ outcomes' = Append(outcomes, [kind |-> "page", page |-> resp])
       /\ retry' = FALSE
       /\ lastEvaluatedKey' = pageKey(resp)
       /\ opRequest' = afterPage(opRequest, pageKey(resp))
       /\ responses' = collect(responses, resp)
       /\ LoopTop(loadAll, lastEvaluatedKey', retry', responses', opRequest')
       /\ UNCHANGED <<loadAll, error, execs, batchVars, streamVars, callVars, ctVars, scVars, exec2>>

\* mutant: the test of err.retryable is inverted
shouldThrowInverted(err) == Flagged(err)

\* mutant: every error is thrown
shouldThrowAlways(err) == TRUE

\* the catch block: if (!err.retryable) throw err
shouldThrow(err) == ~(Has(err, "retryable") /\ err.retryable)

\* mutant: the catch block does not ask for another turn of the loop
retryAfterErrorFalse == FALSE

\* what the catch block leaves in retry
retryAfterError == TRUE

\* The gateway fails the request in flight with an error flagged retryable.
PageRetryable ==
  /\ pc = "wait"
  /\ calls < MaxCalls
  /\ \E err \in Errors :
       /\ ~shouldThrow(err)
       /\ outcomes' = Append(outcomes, [kind |-> "error", err |-> err])
       /\ retry' = retryAfterError
       /\ LoopTop(loadAll, lastEvaluatedKey, retry', responses, opRequest)
       /\ UNCHANGED <<opRequest, loadAll, lastEvaluatedKey, responses,
                      error, execs, batchVars, streamVars, callVars, ctVars, scVars, exec2>>

\* The gateway fails the request in flight with any other error: it is thrown.
PageFatal ==
  /\ pc = "wait"
  /\ \E err \in Errors :
       /\ shouldThrow(err)
       /\ outcomes' = Append(outcomes, [kind |-> "error", err |-> err])
       /\ error' = err
       /\ pc' = "failed"
       /\ UNCHANGED <<opRequest, loadAll, lastEvaluatedKey, retry, responses,
                      result, sent, execs, calls, batchVars, streamVars, callVars, ctVars, scVars, exec2>>

----------------------------------------------------------------------------
\* A second call of exec() on the same builder: another paginatedRequest
\* coroutine, with locals of its own and the builder (opRequest, loadAll) of
\* the first.
NoCall ==
  [pc |-> "idle", lastEvaluatedKey |-> Null, retry |-> FALSE,
   responses |-> <<>>, sent |-> <<>>, outcomes |-> <<>>,
   result |-> NoValue, error |-> NoValue]

\* the top of the loop of the second coroutine, its locals in co
loopTop(co, la, request) ==
  IF whileCond(la, co.lastEvaluatedKey, co.retry)
  THEN [co EXCEPT !.pc = "wait", !.sent = Append(@, buildRequest(request))]
  ELSE [co EXCEPT !.pc = "done",
                  !.result = mergeResults(co.responses, TableName)]

\* exec() is called again on the builder
OtherExec ==
  /\ exec2.pc = "idle"
  /\ pc # "idle"
  /\ calls < MaxCalls
  /\ exec2' = [NoCall EXCEPT !.pc = "wait", !.retry = TRUE,
                             !.sent = <<buildRequest(opRequest)>>]
  /\ calls' = calls + 1
  /\ UNCHANGED <<opRequest, loadAll, pc, lastEvaluatedKey, retry, responses,
                 result, error, sent, outcomes, execs, batchVars, streamVars,
                 callVars, ctVars, scVars>>

\* the pages the gateway answers the second call with
OtherPages == {[x \in {} |-> 0], [LastEvaluatedKey |-> "c1"],
               [LastEvaluatedKey |-> "c2"]}

\* The gateway answers the request of the second call with a page.
OtherPageOk ==
  /\ exec2.pc = "wait"
  /\ \E resp \in OtherPages :
       LET co == [exec2 EXCEPT
                    !.outcomes = Append(@, [kind |-> "page", page |-> resp]),
                    !.retry = FALSE,
                    !.lastEvaluatedKey = pageKey(resp),
                    !.responses = collect(@, resp)]
       IN /\ Has(resp, "LastEvaluatedKey") => calls < MaxCalls
          /\ opRequest' = afterPage(opRequest, pageKey(resp))
          /\ exec2' = loopTop(co, loadAll, opRequest')
          /\ calls' = IF exec2'.pc = "wait" THEN calls + 1 ELSE calls
  /\ UNCHANGED <<loadAll, pc, lastEvaluatedKey, retry, responses, result,
                 error, sent, outcomes, execs, batchVars, streamVars,
                 callVars, ctVars, scVars>>

\* The gateway fails the request of the second call: another turn of the
\* loop if the error is flagged retryable, and the error is thrown if not.
OtherPageError ==
  /\ exec2.pc = "wait"
  /\ \E err \in Errors :
       LET co == [exec2 EXCEPT
                    !.outcomes = Append(@, [kind |-> "error", err |-> err])]
       IN IF shouldThrow(err)
          THEN /\ exec2' = [co EXCEPT !.pc = "failed", !.error = err]
               /\ calls' = calls
          ELSE /\ calls < MaxCalls
               /\ exec2' = loopTop([co EXCEPT !.retry = retryAfterError],
                                   loadAll, opRequest)
               /\ calls' = calls + 1
  /\ UNCHANGED <<opRequest, loadAll, pc, lastEvaluatedKey, retry, responses,
                 result, error, sent, outcomes, execs, batchVars, streamVars,
                 callVars, ctVars, scVars>>

----------------------------------------------------------------------------
\* utils.streamRequest: a Readable whose _read is startRead.  The Readable
\* calls _read only while it is not reading and has not ended; push clears
\* its reading flag.

EndMarker == [end |-> TRUE]    \* stream.push(null)
Ended == \E k \in 1..Len(pushed) : pushed[k] = EndMarker
InFlightPages == Len(sent) - Len(outcomes)

\* startRead up to its yield: no request when performRequest is false,
\* otherwise the cursor is handed to the builder and the request is built
\* mutant: the cursor of the page before is not handed to the builder
startReadFromStart(perform, lek, request) ==
  IF ~perform THEN [issued |-> FALSE, request |-> request]
  ELSE [issued |-> TRUE, request |-> request, built |-> buildRequest(request)]

startRead(perform, lek, request) ==
  IF ~perform THEN [issued |-> FALSE, request |-> request]
  ELSE LET r == IF lek # Null THEN startKey(request, lek) ELSE request
       IN [issued |-> TRUE, request |-> r, built |-> buildRequest(r)]

\* streamRequest(op, runRequestFunc) is called on the builder
StreamOpen ==
  /\ pc \in {"idle", "done", "failed"}
  /\ execs < MaxExecs
  /\ \E la \in BOOLEAN :
       /\ loadAll' = la
       /\ lastEvaluatedKey' = Null
       /\ performRequest' = TRUE
       /\ reading' = FALSE
       /\ timers' = 0
       /\ pushed' = <<>>
       /\ emitted' = <<>>
       /\ pc' = "stream"
       /\ sent' = <<>>
       /\ outcomes' = <<>>
       /\ responses' = <<>>
       /\ result' = NoValue
       /\ error' = NoValue
       /\ execs' = execs + 1
       /\ UNCHANGED <<opRequest, retry, calls, batchVars, callVars, ctVars, scVars, exec2>>

\* The Readable calls _read.
Read ==
  /\ pc = "stream"
  /\ ~reading /\ ~Ended
  /\ performRequest => calls < MaxCalls
  /\ LET started == startRead(performRequest, lastEvaluatedKey, opRequest)
     IN /\ reading' = TRUE
        /\ opRequest' = started.request
        /\ sent' = IF started.issued THEN Append(sent, started.built) ELSE sent
        /\ calls' = IF started.issued THEN calls + 1 ELSE calls
  /\ UNCHANGED <<loadAll, pc, lastEvaluatedKey, retry, responses, result,
                 error, outcomes, execs, performRequest, timers, pushed,
                 emitted, batchVars, callVars, ctVars, scVars, exec2>>

\* mutant: performRequest is left as it was
performAfterPageKept(la, lek) == TRUE

\* performRequest after a page
performAfterPage(la, lek) == ~(~la \/ lek = Null)

\* whether the end marker is pushed after a page
endsAfterPage(la, lek) == ~la \/ lek = Null

\* The gateway answers the request in flight with a page: it is pushed, and
\* on the last page so is the end marker.  A consumer that reads again from
\* inside its handler of the last page makes the Readable call _read before
\* the end marker is pushed.
StreamPageOk ==
  /\ pc \in {"stream", "ended"}
  /\ InFlightPages > 0
  /\ \E resp \in Pages(Len(outcomes) + 1), nested \in BOOLEAN :
       LET lek == pageKey(resp)
           perform == performAfterPage(loadAll, lek)
           last == endsAfterPage(loadAll, lek)
           started == IF last /\ nested
                      THEN startRead(perform, lek, opRequest)
                      ELSE [issued |-> FALSE, request |-> opRequest]
       IN /\ Has(resp, "LastEvaluatedKey") => calls < MaxCalls
          /\ started.issued => calls < MaxCalls
          /\ outcomes' = Append(outcomes, [kind |-> "page", page |-> resp])
          /\ lastEvaluatedKey' = lek
          /\ performRequest' = perform
          /\ pushed' = IF last THEN pushed \o <<resp, EndMarker>>
                       ELSE Append(pushed, resp)
          /\ reading' = (last /\ nested)
          /\ opRequest' = started.request
          /\ sent' = IF started.issued THEN Append(sent, started.built) ELSE sent
          /\ calls' = IF started.issued THEN calls + 1 ELSE calls
          /\ pc' = IF last THEN "ended" ELSE pc
  /\ UNCHANGED <<loadAll, retry, responses, result, error, execs, timers,
                 emitted, batchVars, callVars, ctVars, scVars, exec2>>

\* mutant: the catch block gives the Readable its turn back
readingAfterErrorCleared(rd) == FALSE

\* the Readable's flag after the catch block, which pushes nothing
readingAfterError(rd) == rd

\* The gateway fails the request in flight with an error flagged retryable:
\* wait(1000) is started.
StreamRetryable ==
  /\ pc = "stream"
  /\ InFlightPages > 0
  /\ calls < MaxCalls
  /\ \E err \in Errors :
       /\ ~shouldThrow(err)
       /\ outcomes' = Append(outcomes, [kind |-> "error", err |-> err])
       /\ timers' = timers + 1
       /\ reading' = readingAfterError(reading)
  /\ UNCHANGED <<opRequest, loadAll, pc, lastEvaluatedKey, retry, responses,
                 result, error, sent, execs, calls, performRequest, pushed,
                 emitted, batchVars, callVars, ctVars, scVars, exec2>>

\* wait(1000) is over: startRead() is called again.
StreamTimer ==
  /\ pc = "stream"
  /\ timers > 0
  /\ performRequest => calls < MaxCalls
  /\ LET started == startRead(performRequest, lastEvaluatedKey, opRequest)
     IN /\ timers' = timers - 1
        /\ opRequest' = started.request
        /\ sent' = IF started.issued THEN Append(sent, started.built) ELSE sent
        /\ calls' = IF started.issued THEN calls + 1 ELSE calls
  /\ UNCHANGED <<loadAll, pc, lastEvaluatedKey, retry, responses, result,
                 error, outcomes, execs, performRequest, reading, pushed,
                 emitted, batchVars, callVars, ctVars, scVars, exec2>>

\* The gateway fails the request in flight with any other error: it is
\* emitted on the stream.
StreamFatal ==
  /\ pc = "stream"
  /\ InFlightPages > 0
  /\ \E err \in Errors :
       /\ shouldThrow(err)
       /\ outcomes' = Append(outcomes, [kind |-> "error", err |-> err])
       /\ emitted' = Append(emitted, err)
       /\ pc' = "errored"
  /\ UNCHANGED <<opRequest, loadAll, lastEvaluatedKey, retry, responses,
                 result, error, sent, execs, calls, performRequest, reading,
                 timers, pushed, batchVars, callVars, ctVars, scVars, exec2>>

----------------------------------------------------------------------------
\* batch.js: getItems.

BucketSize == 100
Undefined == [undefined |-> TRUE]
NullObject == [null |-> TRUE]
EmptyObject == [x \in {} |-> 0]
Min(a, b) == IF a < b THEN a ELSE b

\* _.isEmpty
isEmpty(x) == IF x \in {Undefined, NullObject} THEN TRUE ELSE DOMAIN x = {}

\* _.merge(dest, source) on flat objects: the entries of source over dest
Merge(dest, source) ==
  [k \in DOMAIN dest \cup DOMAIN source |->
     IF k \in DOMAIN source THEN source[k] ELSE dest[k]]

\* serializer.buildKey(key, null, schema) for a scalar hash key
buildKey(key) == [email |-> key]

\* the item the store holds under a serialized key
StoredItem(skey) == [email |-> skey.email, name |-> "n"]

\* serializer.deserializeItem
deserializeItem(item) == item

\* table.initItem
initItem(attrs) == [attrs |-> attrs, table |-> TableName]

\* internals.serializeKeys
serializeKeys(keys) == [i \in 1..Len(keys) |-> buildKey(keys[i])]

\* mutant: the Keys are merged into the caller's options object
buildRequestIntoOptions(tableName, keys, options) ==
  LET merged == Merge(options, [Keys |-> keys])
  IN [request |-> [RequestItems |-> Put(EmptyObject, tableName, merged)],
      options |-> merged]

\* internals.buildInitialGetItemsRequest: the request, and the options object
\* as the call leaves it
buildInitialGetItemsRequest(tableName, keys, options) ==
  [request |-> [RequestItems |->
       Put(EmptyObject, tableName,
           Merge(Merge(EmptyObject, [Keys |-> keys]), options))],
   options |-> options]

\* mutant: the array itself is handed on instead of a copy
cloneAlias(heap, ref) == [heap |-> heap, ref |-> ref]

\* _.clone(keys): a new array with the same elements
clone(heap, ref) == [heap |-> Put(heap, "clone", heap[ref]), ref |-> "clone"]

\* mutant: one key too many is taken
spliceTooMany(arr) ==
  [removed |-> SubSeq(arr, 1, Min(BucketSize + 1, Len(arr))),
   rest |-> SubSeq(arr, BucketSize + 2, Len(arr))]

\* keys.splice(0, 100): what is removed and what is left in the array
splice(arr) ==
  [removed |-> SubSeq(arr, 1, Min(BucketSize, Len(arr))),
   rest |-> SubSeq(arr, BucketSize + 1, Len(arr))]

RECURSIVE bucketsLoop(_, _)
bucketsLoop(arr, acc) ==
  IF Len(arr) = 0 THEN [rest |-> arr, buckets |-> acc]
  ELSE bucketsLoop(splice(arr).rest, Append(acc, splice(arr).removed))

\* internals.buckets(keys): the buckets, and the heap with the array emptied
buckets(heap, ref) ==
  LET done == bucketsLoop(heap[ref], <<>>)
  IN [heap |-> Put(heap, ref, done.rest), buckets |-> done.buckets]

\* mutant: a response's items are put before those already merged
mergeResponsesOnePrepend(tableName, memo, resp) ==
  IF Has(resp, "Responses") /\ Has(resp.Responses, tableName)
  THEN [memo EXCEPT !.Responses[tableName] = resp.Responses[tableName] \o @]
  ELSE memo

\* internals.mergeResponses
mergeResponsesOne(tableName, memo, resp) ==
  IF Has(resp, "Responses") /\ Has(resp.Responses, tableName)
  THEN [memo EXCEPT !.Responses[tableName] = @ \o resp.Responses[tableName]]
  ELSE memo

RECURSIVE mergeResponsesReduce(_, _, _)
mergeResponsesReduce(tableName, resps, memo) ==
  IF resps = <<>> THEN memo
  ELSE mergeResponsesReduce(tableName, Tail(resps),
                            mergeResponsesOne(tableName, memo, Head(resps)))

mergeResponses(tableName, resps) ==
  mergeResponsesReduce(tableName, resps,
    [Responses |-> Put(EmptyObject, tableName, <<>>), ConsumedCapacity |-> <<>>])

\* internals.initialBatchGetItems after its paginatedRequest: the items
bucketItems(resps) ==
  LET dynamoItems == mergeResponses(TableName, resps).Responses[TableName]
  IN [i \in 1..Len(dynamoItems) |-> initItem(deserializeItem(dynamoItems[i]))]

\* _.flatten(results)
RECURSIVE flatten(_)
flatten(results) ==
  IF results = <<>> THEN <<>> ELSE Head(results) \o flatten(Tail(results))

\* moreKeysToProcessFunc
moreKeysToProcess(request) == request # NullObject /\ ~isEmpty(request)

\* mutant: the whole previous request is sent again
nextRequestResend(response, previous) == previous

\* the request variable after a response
nextRequest(response, previous) ==
  LET unprocessed == IF Has(response, "UnprocessedKeys")
                     THEN response.UnprocessedKeys ELSE Undefined
  IN IF moreKeysToProcess(unprocessed)
     THEN [RequestItems |-> unprocessed]
     ELSE unprocessed

\* mutant: the failed request is given up
requestAfterErrorDropped(request) == Undefined

\* the request variable after a retryable error: continue
requestAfterError(request) == request

\* mutant: the responses collected so far are forgotten
responsesAfterErrorReset(resps) == <<>>

\* the responses after a retryable error: continue
responsesAfterError(resps) == resps

----------------------------------------------------------------------------
\* The gateway: what a batchGet call can answer.
RequestKeys(request) == request.RequestItems[TableName].Keys

ItemsFor(skeys) == [i \in 1..Len(skeys) |-> StoredItem(skeys[i])]

\* an answer that leaves the last u keys of the request unprocessed; with
\* echo, the unprocessed part carries the request's other entries
PartialAnswer(request, u, echo) ==
  LET ks == RequestKeys(request)
      left == [Keys |-> SubSeq(ks, Len(ks) - u + 1, Len(ks))]
      part == IF echo THEN Merge(request.RequestItems[TableName], left)
              ELSE left
  IN [Responses |-> Put(EmptyObject, TableName,
                        ItemsFor(SubSeq(ks, 1, Len(ks) - u))),
      UnprocessedKeys |-> Put(EmptyObject, TableName, part)]

PartialAnswers(request) ==
  { PartialAnswer(request, u, FALSE) :
      u \in {n \in {1, 2} : n <= Len(RequestKeys(request))} }
  \cup { PartialAnswer(request, 1, TRUE) }

\* every key served, or the empty answer of a stubbed gateway
FinalAnswers(request) ==
  { [Responses |-> Put(EmptyObject, TableName, ItemsFor(RequestKeys(request))),
     UnprocessedKeys |-> EmptyObject],
    EmptyObject }

FollowUps == Len(bsent) - Len(bucket)

NoAnswer == [kind |-> "none"]

\* gresult while getItems has not resolved: a list that is not one of items
Unresolved == <<NoValue>>

----------------------------------------------------------------------------
\* getItems and the per-bucket coroutines, one action per stretch between
\* two suspensions.

\* mutant: the coroutine does not wait for the request it has issued
NewBucketNotAwaited(request, at) ==
  [request |-> request, responses |-> <<>>, st |-> "done", at |-> at,
   items |-> <<>>]

\* a bucket's coroutine, suspended in its first runBatchGetItems
NewBucket(request, at) ==
  [request |-> request, responses |-> <<>>, st |-> "wait", at |-> at,
   items |-> <<>>]

\* Promise.map over the buckets: each bucket's first request, in bucket
\* order, threading the options object through the calls
RECURSIVE dispatch(_, _, _)
dispatch(bks, options, acc) ==
  IF bks = <<>> THEN [requests |-> acc, options |-> options]
  ELSE LET built == buildInitialGetItemsRequest(
                      TableName, serializeKeys(Head(bks)), options)
       IN dispatch(Tail(bks), built.options, Append(acc, built.request))

GetItems ==
  /\ gpc = "idle"
  /\ LET copied == clone(arrays, "keys")
         cut == buckets(copied.heap, copied.ref)
         sentOut == dispatch(cut.buckets, callerOptions, <<>>)
         n == Len(cut.buckets)
     IN /\ arrays' = cut.heap
        /\ callerOptions' = sentOut.options
        /\ bucket' = [b \in 1..n |-> NewBucket(sentOut.requests[b], b)]
        /\ bsent' = [b \in 1..n |->
                       [request |-> sentOut.requests[b], bucket |-> b,
                        answer |-> NoAnswer]]
        /\ gpc' = IF n = 0 THEN "done" ELSE "running"
        /\ gresult' = IF n = 0 THEN <<>> ELSE gresult
  /\ UNCHANGED <<inputKeys, inputOptions, arrivals, gerror, pagVars, streamVars, callVars, ctVars, scVars, exec2>>

\* The top of a bucket's loop with the locals as given: the next request is
\* sent, or the bucket's items are returned.
BucketLoop(b, request, resps, answer) ==
  LET answered == [bsent EXCEPT ![bucket[b].at].answer = answer]
  IN /\ arrivals' = Append(arrivals, bucket[b].at)
     /\ IF moreKeysToProcess(request)
        THEN /\ bsent' = Append(answered,
                           [request |-> request, bucket |-> b, answer |-> NoAnswer])
             /\ bucket' = [bucket EXCEPT ![b] =
                             [@ EXCEPT !.request = request, !.responses = resps,
                                       !.at = Len(bsent) + 1]]
             /\ UNCHANGED <<gpc, gresult>>
        ELSE /\ bsent' = answered
             /\ bucket' = [bucket EXCEPT ![b] =
                             [@ EXCEPT !.request = request, !.responses = resps,
                                       !.st = "done", !.items = bucketItems(resps)]]
             /\ gpc' = IF gpc = "running" /\ \A c \in 1..Len(bucket) : bucket'[c].st = "done"
                       THEN "done" ELSE gpc
             /\ gresult' = IF gpc' = "done" /\ gpc = "running"
                           THEN flatten([c \in 1..Len(bucket) |-> bucket'[c].items])
                           ELSE gresult

\* The gateway answers a bucket's request in flight.
BatchOk ==
  \E b \in 1..Len(bucket) :
    /\ bucket[b].st = "wait"
    /\ \E response \in FinalAnswers(bucket[b].request)
                       \cup PartialAnswers(bucket[b].request) :
         /\ response \in PartialAnswers(bucket[b].request)
              => FollowUps < MaxFollowUps
         /\ BucketLoop(b, nextRequest(response, bucket[b].request),
                       Append(bucket[b].responses, response),
                       [kind |-> "ok", response |-> response])
    /\ UNCHANGED <<inputKeys, inputOptions, arrays, callerOptions, gerror,
                   pagVars, streamVars, callVars, ctVars, scVars, exec2>>

\* The gateway fails a bucket's request with an error flagged retryable.
BatchRetryable ==
  \E b \in 1..Len(bucket) :
    /\ bucket[b].st = "wait"
    /\ FollowUps < MaxFollowUps
    /\ \E err \in Errors :
         /\ ~shouldThrow(err)
         /\ BucketLoop(b, requestAfterError(bucket[b].request),
                       responsesAfterError(bucket[b].responses),
                       [kind |-> "error", err |-> err])
    /\ UNCHANGED <<inputKeys, inputOptions, arrays, callerOptions, gerror,
                   pagVars, streamVars, callVars, ctVars, scVars, exec2>>

\* mutant: the catch block continues whatever the error is
BatchFatalContinues ==
  \E b \in 1..Len(bucket) :
    /\ bucket[b].st = "wait"
    /\ FollowUps < MaxFollowUps
    /\ \E err \in Errors :
         /\ shouldThrow(err)
         /\ BucketLoop(b, bucket[b].request, bucket[b].responses,
                       [kind |-> "error", err |-> err])
    /\ UNCHANGED <<inputKeys, inputOptions, arrays, callerOptions, gerror,
                   pagVars, streamVars, callVars, ctVars, scVars, exec2>>

\* The gateway fails a bucket's request with any other error: the bucket's
\* coroutine throws, and getItems rejects unless it already has.
BatchFatal ==
  \E b \in 1..Len(bucket) :
    /\ bucket[b].st = "wait"
    /\ \E err \in Errors :
         /\ shouldThrow(err)
         /\ bsent' = [bsent EXCEPT ![bucket[b].at].answer =
                        [kind |-> "error", err |-> err]]
         /\ arrivals' = Append(arrivals, bucket[b].at)
         /\ bucket' = [bucket EXCEPT ![b].st = "failed"]
         /\ gpc' = IF gpc = "running" THEN "failed" ELSE gpc
         /\ gerror' = IF gpc = "running" THEN err ELSE gerror
    /\ UNCHANGED <<inputKeys, inputOptions, arrays, callerOptions, gresult,
                   pagVars, streamVars, callVars, ctVars, scVars, exec2>>

----------------------------------------------------------------------------
\* Table.update.  An object whose key order matters (the item) is a sequence
\* of pairs; a string made by the expression compiler is the sequence of its
\* tokens; an attribute value carries its JavaScript type.
Pair(key, value) == [k |-> key, v |-> value]
Str(x) == [t |-> "str", v |-> <<x>>]
Num(x) == [t |-> "num", v |-> <<x>>]
Arr(xs) == [t |-> "arr", v |-> xs]
NullValue == [t |-> "null", v |-> <<>>]
AddOp(xs) == [t |-> "add", v |-> xs]       \* { $add: xs }
DelOp(xs) == [t |-> "del", v |-> xs]       \* { $del: xs }
Now == Str("2026-01-01T00:00:00.000Z")    \* new Date().toISOString()

hasKey(obj, key) == \E i \in 1..Len(obj) : obj[i].k = key
valueOf(obj, key) ==
  IF hasKey(obj, key)
  THEN obj[CHOOSE i \in 1..Len(obj) : obj[i].k = key].v
  ELSE Undefined
omit(obj, keys) == SelectSeq(obj, LAMBDA p : p.k \notin keys)

\* mutant: only the hash key is left out
omitPrimaryKeysHashOnly(schema, params) == omit(params, {schema.hashKey})

\* utils.omitPrimaryKeys
omitPrimaryKeys(schema, params) ==
  omit(params, {schema.hashKey}
               \cup (IF Has(schema, "rangeKey") THEN {schema.rangeKey} ELSE {}))

\* serializer.buildKey(hashKey, rangeKey, schema)
buildKeyOf(hashKey, rangeKey, schema) ==
  LET hashed == Put(EmptyObject, schema.hashKey, hashKey)
  IN IF Has(schema, "rangeKey") /\ rangeKey \notin {Undefined, NullValue}
     THEN Put(hashed, schema.rangeKey, rangeKey)
     ELSE hashed

\* ---- the expression compiler (expressions.js)
ActionWords == <<"SET", "ADD", "REMOVE", "DELETE">>
IsActionWord(tok) == \E i \in 1..Len(ActionWords) : ActionWords[i] = tok
NoExpressions == [SET |-> <<>>, ADD |-> <<>>, REMOVE |-> <<>>, DELETE |-> <<>>]

\* mutant: a null value is set like any other value
serializeOneNullSet(memo, key, value) ==
  LET nameKey == "#" \o key
      valueKey == ":" \o key
      named == [memo EXCEPT !.attributeNames = Put(@, nameKey, key)]
  IN CASE value.t = "add" ->
            [named EXCEPT !.expressions.ADD = Append(@, <<nameKey, valueKey>>),
                          !.values = Put(@, valueKey, Arr(value.v))]
       [] value.t = "del" ->
            [named EXCEPT !.expressions.DELETE = Append(@, <<nameKey, valueKey>>),
                          !.values = Put(@, valueKey, Arr(value.v))]
       [] OTHER ->
            [named EXCEPT !.expressions.SET = Append(@, <<nameKey, "=", valueKey>>),
                          !.values = Put(@, valueKey, value)]

\* one attribute of the payload: its clause, by the shape of its value
serializeOne(memo, key, value) ==
  LET nameKey == "#" \o key
      valueKey == ":" \o key
      named == [memo EXCEPT !.attributeNames = Put(@, nameKey, key)]
  IN CASE value.t = "null" ->
            [named EXCEPT !.expressions.REMOVE = Append(@, <<nameKey>>)]
       [] value.t = "add" ->
            [named EXCEPT !.expressions.ADD = Append(@, <<nameKey, valueKey>>),
                          !.values = Put(@, valueKey, Arr(value.v))]
       [] value.t = "del" ->
            [named EXCEPT !.expressions.DELETE = Append(@, <<nameKey, valueKey>>),
                          !.values = Put(@, valueKey, Arr(value.v))]
       [] OTHER ->
            [named EXCEPT !.expressions.SET = Append(@, <<nameKey, "=", valueKey>>),
                          !.values = Put(@, valueKey, value)]

RECURSIVE serializeReduce(_, _)
serializeReduce(data, memo) ==
  IF data = <<>> THEN memo
  ELSE serializeReduce(Tail(data),
                       serializeOne(memo, Head(data).k, Head(data).v))

\* expressions.serializeUpdateExpression
serializeUpdateExpression(schema, data) ==
  serializeReduce(omitPrimaryKeys(schema, data),
    [expressions |-> NoExpressions, attributeNames |-> EmptyObject,
     values |-> EmptyObject])

RECURSIVE joinClauses(_)
joinClauses(clauses) ==
  IF clauses = <<>> THEN <<>>
  ELSE IF Len(clauses) = 1 THEN clauses[1]
  ELSE clauses[1] \o <<",">> \o joinClauses(Tail(clauses))

RECURSIVE stringifyFrom(_, _)
stringifyFrom(expressions, w) ==
  IF w > Len(ActionWords) THEN <<>>
  ELSE (IF expressions[ActionWords[w]] = <<>> THEN <<>>
        ELSE <<ActionWords[w]>> \o joinClauses(expressions[ActionWords[w]]))
       \o stringifyFrom(expressions, w + 1)

\* expressions.stringify
stringify(expressions) == stringifyFrom(expressions, 1)

\* the tokens between the first occurrence of a word and the next word
bodyOf(str, word) ==
  LET starts == {i \in 1..Len(str) : str[i] = word}
  IN IF starts = {} THEN <<>>
     ELSE LET i == CHOOSE a \in starts : \A b \in starts : a <= b
              ends == {j \in (i + 1)..Len(str) : IsActionWord(str[j])}
              e == IF ends = {} THEN Len(str) + 1
                   ELSE CHOOSE a \in ends : \A b \in ends : a <= b
          IN SubSeq(str, i + 1, e - 1)

RECURSIVE splitClauses(_, _)
splitClauses(toks, cur) ==
  IF toks = <<>> THEN (IF cur = <<>> THEN <<>> ELSE <<cur>>)
  ELSE IF Head(toks) = "," THEN <<cur>> \o splitClauses(Tail(toks), <<>>)
  ELSE splitClauses(Tail(toks), Append(cur, Head(toks)))

\* expressions.parse
parse(str) ==
  [w \in DOMAIN NoExpressions |-> splitClauses(bodyOf(str, w), <<>>)]

\* ---- the condition compiler (expressions.js)
\* what an expected entry can hold: { Exists: b }, { '<>': v } or a value
ExistsOp(b) == [t |-> "exists", v |-> <<IF b THEN "true" ELSE "false">>]
NeOp(x) == [t |-> "ne", v |-> x.v, of |-> x.t]
NeValue(val) == [t |-> val.of, v |-> val.v]

\* the n-th value alias tried for a key: :key, :key_2, :key_3, ...
aliasOf(key, n) ==
  IF n = 1 THEN ":" \o key ELSE ":" \o key \o "_" \o ToString(n)

\* mutant: the alias is taken whether or not the request holds it already
uniqAttributeValueNameFirst(key, existingValueNames) == ":" \o key

\* the first of :key, :key_2, :key_3, ... that the request does not hold
uniqAttributeValueName(key, existingValueNames) ==
  LET free == {n \in 1..MaxSuffix : aliasOf(key, n) \notin existingValueNames}
  IN aliasOf(key, CHOOSE n \in free : \A m \in free : n <= m)

\* expressions.buildFilterExpression(key, operator, existingValueNames, val1)
buildFilterExpression(key, operator, existingValueNames, val1) ==
  LET path == "#" \o key
      v1ValueName == uniqAttributeValueName(key, existingValueNames)
      unary == operator \in {"attribute_exists", "attribute_not_exists"}
  IN [attributeNames |-> (path :> key),
      statement |-> IF unary THEN <<operator, "(", path, ")">>
                    ELSE <<path, operator, v1ValueName>>,
      attributeValues |-> IF unary THEN EmptyObject
                          ELSE (v1ValueName :> val1)]

\* ---- table.js
Max(a, b) == IF a > b THEN a ELSE b

\* _.merge on two values: arrays are merged index by index, anything else
\* is overridden by the source
mergeValue(a, b) ==
  IF a.t = "arr" /\ b.t = "arr"
  THEN Arr([i \in 1..Max(Len(a.v), Len(b.v)) |->
              IF i <= Len(b.v) THEN b.v[i] ELSE a.v[i]])
  ELSE b

\* _.merge({}, dest, source) on maps of attribute values
mergeDeep(dest, source) ==
  [k \in DOMAIN dest \cup DOMAIN source |->
     IF k \in DOMAIN dest /\ k \in DOMAIN source
     THEN mergeValue(dest[k], source[k])
     ELSE IF k \in DOMAIN source THEN source[k] ELSE dest[k]]

\* internals.updateExpressions
updateExpressions(schema, data, opts) ==
  LET exp == serializeUpdateExpression(schema, data)
      parsed == parse(opts.UpdateExpression)
      expressions ==
        IF Has(opts, "UpdateExpression") /\ opts.UpdateExpression # <<>>
        THEN [w \in DOMAIN exp.expressions |->
                IF parsed[w] # <<>> THEN exp.expressions[w] \o parsed[w]
                ELSE exp.expressions[w]]
        ELSE exp.expressions
      values ==
        IF Has(opts, "ExpressionAttributeValues")
        THEN mergeDeep(exp.values, opts.ExpressionAttributeValues)
        ELSE exp.values
      attributeNames ==
        IF Has(opts, "ExpressionAttributeNames")
        THEN Merge(exp.attributeNames, opts.ExpressionAttributeNames)
        ELSE exp.attributeNames
  IN [ExpressionAttributeValues |-> values,
      ExpressionAttributeNames |-> attributeNames,
      UpdateExpression |-> stringify(expressions)]

\* the operator an expected entry stands for
operatorOf(val) ==
  CASE val.t = "exists" /\ val.v = <<"true">> -> "attribute_exists"
    [] val.t = "exists" /\ val.v = <<"false">> -> "attribute_not_exists"
    [] val.t = "ne" -> "<>"
    [] OTHER -> "="

expectedValueOf(val) ==
  CASE val.t = "exists" -> NullValue
    [] val.t = "ne" -> NeValue(val)
    [] OTHER -> val

entryOf(params, key) == IF Has(params, key) THEN params[key] ELSE EmptyObject

\* mutant: the conditions are joined with OR
addConditionOr(params, key, val) ==
  LET condition == buildFilterExpression(key, operatorOf(val),
                     DOMAIN entryOf(params, "ExpressionAttributeValues"),
                     expectedValueOf(val))
      names == Merge(condition.attributeNames,
                     entryOf(params, "ExpressionAttributeNames"))
      values == mergeDeep(condition.attributeValues,
                          entryOf(params, "ExpressionAttributeValues"))
      wrapped == <<"(">> \o condition.statement \o <<")">>
  IN [k \in DOMAIN params \cup {"ExpressionAttributeNames",
                                "ExpressionAttributeValues",
                                "ConditionExpression"} |->
        CASE k = "ExpressionAttributeNames" -> names
          [] k = "ExpressionAttributeValues" -> values
          [] k = "ConditionExpression" ->
               IF Has(params, "ConditionExpression")
               THEN params.ConditionExpression \o <<"OR">> \o wrapped
               ELSE wrapped
          [] OTHER -> params[k]]

\* the body of the loop of addConditionExpression: one expected entry
addCondition(params, key, val) ==
  LET condition == buildFilterExpression(key, operatorOf(val),
                     DOMAIN entryOf(params, "ExpressionAttributeValues"),
                     expectedValueOf(val))
      names == Merge(condition.attributeNames,
                     entryOf(params, "ExpressionAttributeNames"))
      values == mergeDeep(condition.attributeValues,
                          entryOf(params, "ExpressionAttributeValues"))
      wrapped == <<"(">> \o condition.statement \o <<")">>
  IN [k \in DOMAIN params \cup {"ExpressionAttributeNames",
                                "ExpressionAttributeValues",
                                "ConditionExpression"} |->
        CASE k = "ExpressionAttributeNames" -> names
          [] k = "ExpressionAttributeValues" -> values
          [] k = "ConditionExpression" ->
               IF Has(params, "ConditionExpression")
               THEN params.ConditionExpression \o <<"AND">> \o wrapped
               ELSE wrapped
          [] OTHER -> params[k]]

\* internals.addConditionExpression
RECURSIVE addConditionExpression(_, _)
addConditionExpression(params, expectedConditions) ==
  IF expectedConditions = <<>> THEN params
  ELSE addConditionExpression(
         addCondition(params, Head(expectedConditions).k,
                      Head(expectedConditions).v),
         Tail(expectedConditions))

\* the start function of update: the updatedAt timestamp
stampUpdatedAt(schema, data) ==
  IF schema.timestamps /\ ~hasKey(data, "updatedAt")
  THEN Append(data, Pair("updatedAt", Now))
  ELSE data

\* .omitBy(_.isEmpty) on the request: the strings among its entries are
\* TableName and ReturnValues
omitByIsEmpty(request) ==
  [k \in {k \in DOMAIN request :
            IF k \in {"TableName", "ReturnValues"} THEN request[k] # ""
            ELSE DOMAIN request[k] # {}} |-> request[k]]

UpdateOptionNames ==
  {"UpdateExpression", "ExpressionAttributeValues",
   "ExpressionAttributeNames", "expected"}

\* ---- the listeners registered with table.before(name, listener): the
\* ---- ones of the tests, which set an attribute of the payload and return
\* ---- it, or throw
HookError == [message |-> "fail"]

setAttr(obj, key, value) ==
  IF hasKey(obj, key)
  THEN [i \in 1..Len(obj) |-> IF obj[i].k = key THEN Pair(key, value) ELSE obj[i]]
  ELSE Append(obj, Pair(key, value))

runListener(listener, data) ==
  CASE listener = "name" -> [data |-> setAttr(data, "name", Str("Tommy"))]
    [] listener = "age" -> [data |-> setAttr(data, "age", Str("25"))]
    [] OTHER -> [error |-> HookError]

\* mutant: the error of a listener is dropped and the pipeline goes on
waterfallAfterIgnoring(out) == "hooks"

\* utils.waterfall once fns[i] has settled: on to the next function, or out
\* with its error
waterfallAfter(out) == IF Has(out, "error") THEN "failed" ELSE "hooks"

\* the errors of schema validation
UpdateValidationError == [name |-> "DynogelsUpdateError"]
ValidationError == [name |-> "ValidationError"]

\* mutant: an invalid payload goes on to the gateway
afterValidationLax(valid) == "hooks"

\* update after validateItemFragment: throw, or start the pipeline
afterValidation(valid) == IF valid THEN "hooks" ELSE "failed"

\* Table.prototype.update(item, options) is called: validation of the item,
\* then callBeforeHooks up to the promise of its start function
Update ==
  /\ upc = "idle"
  /\ method = "update"
  /\ \E valid \in BOOLEAN :
       /\ upc' = afterValidation(valid)
       /\ uerror' = IF valid THEN uerror ELSE UpdateValidationError
       /\ updItem' = IF afterValidation(valid) = "hooks"
                     THEN stampUpdatedAt(updSchema, updItem) ELSE updItem
  /\ UNCHANGED <<updSchema, updItemIn, updOptions, updParams, updated, hookAt,
                 tableVars, createVars, ctVars, pagVars, batchVars, streamVars, scVars, exec2>>

\* utils.waterfall calls the next listener of 'update' with the payload; the
\* listeners of the tests change the payload in place
UpdateBefore ==
  /\ upc = "hooks"
  /\ hookAt < Len(beforeListeners.update)
  /\ LET out == runListener(beforeListeners.update[hookAt + 1], updItem)
     IN /\ trace' = Append(trace, [ev |-> "before", co |-> 1,
                                   n |-> hookAt + 1, got |-> updItem])
        /\ upc' = waterfallAfter(out)
        /\ hookAt' = hookAt + 1
        /\ updItem' = IF Has(out, "error") THEN updItem ELSE out.data
        /\ uerror' = IF waterfallAfter(out) = "failed" THEN out.error
                     ELSE uerror
  /\ UNCHANGED <<updSchema, updItemIn, updOptions, updParams, updated,
                 beforeListeners, createVars, ctVars, pagVars, batchVars, streamVars, scVars, exec2>>

\* the request of update: key, expressions, expected, the other options
updateRequest(schema, data, opts) ==
  LET hashKey == valueOf(data, schema.hashKey)
      rangeKey == IF Has(schema, "rangeKey")
                  THEN valueOf(data, schema.rangeKey) ELSE Undefined
      initial == [TableName |-> TableName,
                  Key |-> buildKeyOf(hashKey, rangeKey, schema),
                  ReturnValues |-> "ALL_NEW"]
      exp == updateExpressions(schema, data, opts)
      conditioned ==
        IF Has(opts, "expected")
        THEN addConditionExpression(Merge(initial, exp), opts.expected)
        ELSE Merge(initial, exp)
      unprocessedOptions ==
        [k \in DOMAIN opts \ UpdateOptionNames |-> opts[k]]
  IN omitByIsEmpty(Merge(conditioned, unprocessedOptions))

\* mutant: expected is deleted from the caller's options, as destroy does
UpdateSendDeleting ==
  /\ upc = "hooks"
  /\ hookAt = Len(beforeListeners.update)
  /\ updParams' = updateRequest(updSchema, updItem, updOptions)
  /\ updOptions' = Del(updOptions, "expected")
  /\ trace' = Append(trace, [ev |-> "gateway", co |-> 1, op |-> "update"])
  /\ upc' = "sent"
  /\ UNCHANGED <<updSchema, updItemIn, updItem, updated, uerror,
                 hookAt, beforeListeners, createVars, ctVars, pagVars, batchVars,
                 streamVars, scVars, exec2>>

\* Table.prototype.update once the pipeline has returned its payload, up to
\* its sendRequest
UpdateSend ==
  /\ upc = "hooks"
  /\ hookAt = Len(beforeListeners.update)
  /\ updParams' = updateRequest(updSchema, updItem, updOptions)
  /\ trace' = Append(trace, [ev |-> "gateway", co |-> 1, op |-> "update"])
  /\ upc' = "sent"
  /\ UNCHANGED <<updSchema, updItemIn, updItem, updOptions, updated, uerror,
                 hookAt, beforeListeners, createVars, ctVars, pagVars, batchVars,
                 streamVars, scVars, exec2>>

\* what the gateway returns in Attributes
ReturnedAttributes == [email |-> "a", name |-> "n"]

\* The gateway answers the update, with or without Attributes.
UpdateReply ==
  /\ upc = "sent"
  /\ \E resp \in {EmptyObject, [Attributes |-> ReturnedAttributes]} :
       updated' = IF Has(resp, "Attributes")
                  THEN initItem(deserializeItem(resp.Attributes))
                  ELSE Undefined
  /\ trace' = Append(trace, [ev |-> "after", co |-> 1, name |-> "update"])
  /\ upc' = "done"
  /\ UNCHANGED <<updSchema, updItemIn, updItem, updOptions, updParams, uerror,
                 hookAt, beforeListeners, createVars, ctVars, pagVars, batchVars,
                 streamVars, scVars, exec2>>

\* The gateway fails the update: sendRequest rethrows the error.
UpdateFails ==
  /\ upc = "sent"
  /\ \E err \in Errors : uerror' = err
  /\ upc' = "failed"
  /\ UNCHANGED <<updSchema, updItemIn, updItem, updOptions, updParams, updated,
                 hookAt, tableVars, createVars, ctVars, pagVars, batchVars, streamVars, scVars, exec2>>

----------------------------------------------------------------------------
\* Table.create and Table.destroy.  The call has one coroutine for each item
\* of an array passed to create, and one coroutine otherwise.

\* utils.omitNulls: null values, empty strings and empty arrays are left out
omitNulls(data) ==
  SelectSeq(data, LAMBDA p : ~(p.v.t = "null" \/ p.v.v = <<>> \/ p.v.v = <<"">>))

\* serializer.serializeItem: the item as the map the gateway takes
serializeItem(attrs) ==
  [a \in {attrs[i].k : i \in 1..Len(attrs)} |-> valueOf(attrs, a)]

\* the start function of createItem: the createdAt timestamp
stampCreatedAt(schema, data) ==
  IF schema.timestamps /\ ~hasKey(data, "createdAt")
  THEN Append(data, Pair("createdAt", Now))
  ELSE data

\* _.merge({}, params, options): the maps of names and values are merged
\* entry by entry, any other entry of the options replaces the request's
mergeOptions(params, opts) ==
  [k \in DOMAIN params \cup DOMAIN opts |->
     IF k \in DOMAIN params /\ k \in DOMAIN opts
     THEN CASE k = "ExpressionAttributeValues" -> mergeDeep(params[k], opts[k])
            [] k = "ExpressionAttributeNames" -> Merge(params[k], opts[k])
            [] OTHER -> opts[k]
     ELSE IF k \in DOMAIN opts THEN opts[k] ELSE params[k]]

\* the expected map of overwrite: false: { hash: {'<>': v}, range: {'<>': w} }
overwriteExpected(schema, Item) ==
  LET keys == <<schema.hashKey>>
                \o (IF Has(schema, "rangeKey") THEN <<schema.rangeKey>> ELSE <<>>)
  IN [i \in 1..Len(keys) |-> Pair(keys[i], NeOp(Item[keys[i]]))]

\* the request of createItem: item, expected, overwrite, the other options
createRequest(schema, attrs, opts) ==
  LET initial == [TableName |-> TableName, Item |-> serializeItem(attrs)]
      conditioned ==
        IF Has(opts, "expected")
        THEN addConditionExpression(initial, opts.expected) ELSE initial
      guarded ==
        IF Has(opts, "overwrite") /\ opts.overwrite = FALSE
        THEN addConditionExpression(conditioned,
                                    overwriteExpected(schema, initial.Item))
        ELSE conditioned
  IN mergeOptions(guarded,
                  [k \in DOMAIN opts \ {"expected", "overwrite"} |-> opts[k]])

\* the request of destroy: key, expected, the other options
destroyRequest(schema, key, opts) ==
  LET hashKey == valueOf(key, schema.hashKey)
      rangeKey == IF Has(schema, "rangeKey")
                  THEN valueOf(key, schema.rangeKey) ELSE Undefined
      initial == [TableName |-> TableName,
                  Key |-> buildKeyOf(hashKey, rangeKey, schema)]
      conditioned ==
        IF Has(opts, "expected")
        THEN addConditionExpression(initial, opts.expected) ELSE initial
  IN mergeOptions(conditioned, Del(opts, "expected"))

\* mutant: the call resolves as soon as one coroutine is done
allDoneAny(cos) == \E i \in 1..Len(cos) : cos[i].st = "done"

\* Promise.map: every coroutine has resolved
allDone(cos) == \A i \in 1..Len(cos) : cos[i].st = "done"

\* Table.prototype.create(item, options) is called: one createItem for the
\* item, or one for each item of the array, each up to the promise of its
\* start function
Create ==
  /\ cpc = "idle"
  /\ method = "create"
  /\ crco' = [i \in 1..Len(crArg.items) |->
                [st |-> "hooks", at |-> 0,
                 data |-> stampCreatedAt(updSchema, crArg.items[i]),
                 params |-> NoValue, result |-> NoValue, error |-> NoValue]]
  /\ cpc' = IF crArg.items = <<>> THEN "done" ELSE "running"
  /\ cresult' = IF crArg.items = <<>> THEN <<>> ELSE cresult
  /\ UNCHANGED <<method, crArg, crOptionsIn, crOptions, cerror, updateVars,
                 tableVars, ctVars, pagVars, batchVars, streamVars, scVars, exec2>>

\* the call rejects with the first error of one of its coroutines
rejected(err) ==
  /\ cpc' = IF cpc = "running" THEN "failed" ELSE cpc
  /\ cerror' = IF cpc = "running" THEN err ELSE cerror
  /\ UNCHANGED cresult

\* utils.waterfall of one createItem calls the next listener of 'create'
CreateBefore ==
  \E i \in 1..Len(crco) :
    /\ crco[i].st = "hooks"
    /\ crco[i].at < Len(beforeListeners.create)
    /\ LET out == runListener(beforeListeners.create[crco[i].at + 1],
                              crco[i].data)
       IN /\ trace' = Append(trace, [ev |-> "before", co |-> i,
                                     n |-> crco[i].at + 1,
                                     got |-> crco[i].data])
          /\ crco' = [crco EXCEPT ![i].st = waterfallAfter(out),
                                  ![i].at = @ + 1,
                                  ![i].data = IF Has(out, "error") THEN @
                                              ELSE out.data,
                                  ![i].error =
                                    IF waterfallAfter(out) = "failed"
                                    THEN out.error ELSE @]
          /\ IF waterfallAfter(out) = "failed" THEN rejected(out.error)
             ELSE UNCHANGED <<cpc, cerror, cresult>>
    /\ UNCHANGED <<method, crArg, crOptionsIn, crOptions, beforeListeners,
                   updateVars, ctVars, pagVars, batchVars, streamVars, scVars, exec2>>

\* mutant: an invalid payload goes on to the gateway
createAfterValidationLax(valid) == "sent"

\* createItem after schema.validate: throw, or build the request
createAfterValidation(valid) == IF valid THEN "sent" ELSE "failed"

\* createItem once the pipeline has returned its payload: validation, then
\* the request, up to its sendRequest
CreateSend ==
  \E i \in 1..Len(crco) :
    /\ method = "create"
    /\ crco[i].st = "hooks"
    /\ crco[i].at = Len(beforeListeners.create)
    /\ \E valid \in BOOLEAN :
         LET st == createAfterValidation(valid)
         IN /\ crco' = [crco EXCEPT
                 ![i].st = st,
                 ![i].error = IF valid THEN @ ELSE ValidationError,
                 ![i].params = IF st = "sent"
                               THEN createRequest(updSchema,
                                      omitNulls(crco[i].data), crOptions)
                               ELSE @]
            /\ trace' = IF st = "sent"
                        THEN Append(trace, [ev |-> "gateway", co |-> i,
                                            op |-> "put"])
                        ELSE trace
            /\ IF st = "failed" THEN rejected(ValidationError)
               ELSE UNCHANGED <<cpc, cerror, cresult>>
    /\ UNCHANGED <<method, crArg, crOptionsIn, crOptions, beforeListeners,
                   updateVars, ctVars, pagVars, batchVars, streamVars, scVars, exec2>>

\* Table.prototype.destroy(hashKey, options) is called with the key as an
\* object, up to its sendRequest
Destroy ==
  /\ cpc = "idle"
  /\ method = "destroy"
  /\ crco' = <<[st |-> "sent", at |-> 0, data |-> crArg.items[1],
                params |-> destroyRequest(updSchema, crArg.items[1], crOptions),
                result |-> NoValue, error |-> NoValue]>>
  /\ crOptions' = Del(crOptions, "expected")
  /\ trace' = Append(trace, [ev |-> "gateway", co |-> 1, op |-> "delete"])
  /\ cpc' = "running"
  /\ UNCHANGED <<method, crArg, crOptionsIn, cresult, cerror, beforeListeners,
                 updateVars, ctVars, pagVars, batchVars, streamVars, scVars, exec2>>

\* what the coroutine returns after its gateway call
returned(meth, data, resp) ==
  IF meth = "create" THEN initItem(serializeItem(omitNulls(data)))
  ELSE IF Has(resp, "Attributes")
       THEN initItem(deserializeItem(resp.Attributes)) ELSE Undefined

\* The gateway answers a put or a delete: the after event, then the coroutine
\* returns; the call resolves once every coroutine has.
CallReply ==
  \E i \in 1..Len(crco) :
    /\ crco[i].st = "sent"
    /\ \E resp \in {EmptyObject, [Attributes |-> ReturnedAttributes]} :
         LET cos == [crco EXCEPT ![i].st = "done",
                                 ![i].result = returned(method, crco[i].data,
                                                        resp)]
         IN /\ crco' = cos
            /\ cpc' = IF cpc = "running" /\ allDone(cos) THEN "done" ELSE cpc
            /\ cresult' = IF cpc = "running" /\ allDone(cos)
                          THEN (IF crArg.array
                                THEN [k \in 1..Len(cos) |-> cos[k].result]
                                ELSE cos[1].result)
                          ELSE cresult
    /\ trace' = Append(trace, [ev |-> "after", co |-> i, name |-> method])
    /\ UNCHANGED <<method, crArg, crOptionsIn, crOptions, cerror,
                   beforeListeners, updateVars, ctVars, pagVars, batchVars, streamVars, scVars, exec2>>

\* mutant: the after event fires although the gateway failed
CallFailsEmitting ==
  \E i \in 1..Len(crco) :
    /\ crco[i].st = "sent"
    /\ \E err \in Errors :
         /\ crco' = [crco EXCEPT ![i].st = "failed", ![i].error = err]
         /\ rejected(err)
    /\ trace' = Append(trace, [ev |-> "after", co |-> i, name |-> method])
    /\ UNCHANGED <<method, crArg, crOptionsIn, crOptions, beforeListeners,
                   updateVars, ctVars, pagVars, batchVars, streamVars, scVars, exec2>>

\* The gateway fails a put or a delete: sendRequest rethrows the error.
CallFails ==
  \E i \in 1..Len(crco) :
    /\ crco[i].st = "sent"
    /\ \E err \in Errors :
         /\ crco' = [crco EXCEPT ![i].st = "failed", ![i].error = err]
         /\ rejected(err)
    /\ UNCHANGED <<method, crArg, crOptionsIn, crOptions, tableVars,
                   updateVars, ctVars, pagVars, batchVars, streamVars, scVars, exec2>>

----------------------------------------------------------------------------
\* createTables(models, config).  The models are numbered in the order of
\* their keys.  The log holds the calls createTables makes on a model
\* ("call"), the requests updateTable sends for it ("request"), what the
\* gateway answers ("answer") and the waits ("wait").
Called(k, op) == [ev |-> "call", model |-> k, op |-> op]
Requested(k, op) == [ev |-> "request", model |-> k, op |-> op]
Replied(k, op, with) == [ev |-> "answer", model |-> k, op |-> op, with |-> with]
Waited(k) == [ev |-> "wait", model |-> k]

\* what describeTable answers with: nothing, or the description of a table
NoDescription == [none |-> TRUE]
Statuses == {"PENDING", "ACTIVE"}
Description(status) == [Table |-> [TableStatus |-> status]]
TypeError == [name |-> "TypeError"]

\* what a request for a table can fail with
Failures == {[code |-> "ResourceInUseException"], [code |-> "NetworkingError"]}

\* the answers of a polling describeTable that do not end the polling
Polls(log, k) ==
  Len(SelectSeq(log, LAMBDA e : e.ev = "answer" /\ e.model = k
                                  /\ e.op = "describeTable"
                                  /\ e.with \in {Description(s) :
                                                   s \in Statuses \ {"ACTIVE"}}))

\* mutant: a table that exists is created as well
afterDescribeCreating(desc) == "createTable"

\* internals.createTable after its describeTable: createTable when there is
\* no description, updateTable otherwise
afterDescribe(desc) ==
  IF desc = NoDescription THEN "createTable" ELSE "updateTable"

\* mutant: the polling ends with the first description, whatever its status
whileStatusAny(status) == FALSE

\* waitTillActive: while (status !== 'ACTIVE')
whileStatus(status) == status # "ACTIVE"

\* mutant: the next model is taken although this one has failed
eachAfterFailureOn(k, n) == IF k < n THEN "describe" ELSE "failed"

\* Promise.each after the function of model k has rejected
eachAfterFailure(k, n) == "failed"

\* createTables rejects: nothing more is called
tablesFail(k, err, log) ==
  /\ tpc' = eachAfterFailure(k, nmodels)
  /\ terror' = err
  /\ tat' = IF eachAfterFailure(k, nmodels) = "failed" THEN tat ELSE k + 1
  /\ tlog' = IF eachAfterFailure(k, nmodels) = "failed" THEN log
             ELSE Append(log, Called(k + 1, "describeTable"))
  /\ UNCHANGED <<nmodels, tdata>>

\* One turn of the loop of waitTillActive while the status is not ACTIVE:
\* a wait when an answer has been had already (data), then describeTable;
\* on entry no answer has been had
pollAgain(k, data, log) ==
  /\ tpc' = IF data THEN "wait" ELSE "poll"
  /\ tdata' = data
  /\ tlog' = Append(log, IF data THEN Waited(k) ELSE Called(k, "describeTable"))
  /\ UNCHANGED <<nmodels, tat, terror>>

\* createTables(models, config) is called: Promise.each takes the first model
\* and internals.createTable calls its describeTable
CreateTables ==
  /\ tpc = "idle"
  /\ tpc' = IF nmodels = 0 THEN "done" ELSE "describe"
  /\ tat' = IF nmodels = 0 THEN tat ELSE 1
  /\ tlog' = IF nmodels = 0 THEN tlog
             ELSE Append(tlog, Called(1, "describeTable"))
  /\ UNCHANGED <<nmodels, tdata, tout, terror, pagVars, batchVars,
                 streamVars, callVars, scVars, exec2>>

\* The first describeTable of a model is answered, or fails (the error is
\* caught): createTable is called, or updateTable, whose syncIndexes sends a
\* describeTable of its own.
DescribeAnswer ==
  /\ tpc = "describe"
  /\ \E with \in {NoDescription} \cup {Description(s) : s \in Statuses}
                 \cup Failures :
       LET desc == IF with \in Failures THEN NoDescription ELSE with
           log == Append(tlog, Replied(tat, "describeTable", with))
       IN IF afterDescribe(desc) = "createTable"
          THEN /\ tpc' = "create"
               /\ tlog' = Append(log, Called(tat, "createTable"))
          ELSE /\ tpc' = "sync"
               /\ tlog' = log \o <<Called(tat, "updateTable"),
                                   Requested(tat, "describeTable")>>
  /\ UNCHANGED <<nmodels, tat, tdata, tout, terror, pagVars, batchVars,
                 streamVars, callVars, scVars, exec2>>

\* createTable is answered: waitTillActive, or the error is thrown.
CreateTableAnswer ==
  /\ tpc = "create"
  /\ \E with \in {NoDescription} \cup Failures :
       LET log == Append(tlog, Replied(tat, "createTable", with))
       IN IF with \in Failures THEN tablesFail(tat, with, log)
          ELSE pollAgain(tat, FALSE, log)
  /\ UNCHANGED <<tout, pagVars, batchVars, streamVars, callVars, scVars, exec2>>

MaxIndexes == 2    \* global indexes a table can miss

\* The describeTable of syncIndexes is answered: one updateTable request for
\* each missing global index, all at once; with none missing updateTable
\* returns and waitTillActive is entered.
SyncAnswer ==
  /\ tpc = "sync"
  /\ \/ \E err \in Failures :
          /\ tablesFail(tat, err, Append(tlog, Replied(tat, "describeTable", err)))
          /\ UNCHANGED tout
     \/ \E with \in {NoDescription, Description("ACTIVE")},
           missing \in 0..MaxIndexes :
          LET log == Append(tlog, Replied(tat, "describeTable", with))
          IN IF missing = 0
             THEN pollAgain(tat, FALSE, log) /\ UNCHANGED tout
             ELSE /\ tpc' = "indexes"
                  /\ tout' = missing
                  /\ tlog' = log \o [i \in 1..missing |->
                                       Requested(tat, "updateTable")]
                  /\ UNCHANGED <<nmodels, tat, tdata, terror>>
  /\ UNCHANGED <<pagVars, batchVars, streamVars, callVars, scVars, exec2>>

\* An updateTable request of syncIndexes is answered: updateTable returns
\* once all of them are, and throws with the first error; an answer that
\* comes after that changes nothing.
IndexAnswer ==
  /\ tout > 0
  /\ tout' = tout - 1
  /\ \E with \in {NoDescription} \cup Failures :
       LET log == Append(tlog, Replied(tat, "updateTable", with))
       IN IF tpc # "indexes"
          THEN tlog' = log /\ UNCHANGED <<nmodels, tpc, tat, tdata, terror>>
          ELSE IF with \in Failures THEN tablesFail(tat, with, log)
          ELSE IF tout = 1 THEN pollAgain(tat, FALSE, log)
          ELSE tlog' = log /\ UNCHANGED <<nmodels, tpc, tat, tdata, terror>>
  /\ UNCHANGED <<pagVars, batchVars, streamVars, callVars, scVars, exec2>>

MaxPolls == 2      \* answers of one model's polling that are not ACTIVE

\* A describeTable of waitTillActive is answered: with ACTIVE the next model
\* is taken, or createTables returns; with another status a wait is started;
\* an error, or an answer without a description, is thrown.
PollAnswer ==
  /\ tpc = "poll"
  /\ \E with \in {NoDescription}
                 \cup {Description(s) : s \in Statuses} \cup Failures :
       LET log == Append(tlog, Replied(tat, "describeTable", with))
       IN /\ (with \in {Description(s) : s \in Statuses \ {"ACTIVE"}})
               => Polls(tlog, tat) < MaxPolls
          /\ IF with \in Failures THEN tablesFail(tat, with, log)
             ELSE IF with = NoDescription THEN tablesFail(tat, TypeError, log)
             ELSE IF whileStatus(with.Table.TableStatus)
             THEN pollAgain(tat, TRUE, log)
             ELSE IF tat < nmodels
             THEN /\ tpc' = "describe"
                  /\ tat' = tat + 1
                  /\ tdata' = TRUE
                  /\ tlog' = Append(log, Called(tat + 1, "describeTable"))
                  /\ UNCHANGED <<nmodels, terror>>
             ELSE /\ tpc' = "done"
                  /\ tdata' = TRUE
                  /\ tlog' = log
                  /\ UNCHANGED <<nmodels, tat, terror>>
  /\ UNCHANGED <<tout, pagVars, batchVars, streamVars, callVars, scVars, exec2>>

\* The wait of waitTillActive is over: the next describeTable.
PollTimer ==
  /\ tpc = "wait"
  /\ tpc' = "poll"
  /\ tlog' = Append(tlog, Called(tat, "describeTable"))
  /\ UNCHANGED <<nmodels, tat, tdata, tout, terror, pagVars, batchVars,
                 streamVars, callVars, scVars, exec2>>

----------------------------------------------------------------------------
\* Scaler (capacity autoscaling): the constructor, the setters, exec().
MaxStack == 3      \* the frames the call stack holds

RangeError == [name |-> "RangeError"]

\* mutant: a call without new is made again with new
ScalerWithNew(isInstance, options, depth) == [options |-> options]

\* function Scaler(options), called with this an instance or not, depth
\* frames deep: what it returns, or what it throws when the stack is full
RECURSIVE Scaler(_, _, _)
Scaler(isInstance, options, depth) ==
  IF depth > MaxStack THEN [error |-> RangeError]
  ELSE IF ~isInstance THEN Scaler(FALSE, options, depth + 1)
  ELSE [options |-> options]

\* mutant: the index is left out of the resource
getCommonParamsOfTable(sc) ==
  [ResourceId |-> "table/" \o TableName,
   RoleARN |-> sc.role,
   ServiceNamespace |-> "dynamodb"]

getCommonParams(sc) ==
  [ResourceId |-> IF Has(sc, "indexName")
                  THEN "table/" \o TableName \o "/index/" \o sc.indexName
                  ELSE "table/" \o TableName,
   RoleARN |-> sc.role,
   ServiceNamespace |-> "dynamodb"]

\* one task of scale: _.extend({Max, Min, ScalableDimension}, common)
task(sc, capacity, units) ==
  Merge([MaxCapacity |-> capacity.max,
         MinCapacity |-> capacity.min,
         ScalableDimension |->
           "dynamodb:" \o (IF Has(sc, "indexName") THEN "index" ELSE "table")
                       \o ":" \o units],
        getCommonParams(sc))

\* the tasks of scale(scaler), in the order they are pushed
scale(sc) ==
  (IF Has(sc, "readCapacity")
   THEN <<task(sc, sc.readCapacity, "ReadCapacityUnits")>> ELSE <<>>)
  \o (IF Has(sc, "writeCapacity")
      THEN <<task(sc, sc.writeCapacity, "WriteCapacityUnits")>> ELSE <<>>)

\* Scaler(options) or new Scaler(options) is called
ScalerCall ==
  /\ scpc = "idle"
  /\ LET out == Scaler(scNew, scArg, 1)
     IN IF Has(out, "error")
        THEN scpc' = "threw" /\ scError' = out.error /\ scaler' = scaler
        ELSE scpc' = "built" /\ scaler' = out.options /\ scError' = scError
  /\ UNCHANGED <<scNew, scArg, scTargets, pagVars, batchVars, streamVars,
                 callVars, ctVars, exec2>>

Ranges == {[min |-> 1, max |-> 5], [min |-> 2, max |-> 6]}

\* scaler.readCapacity({min, max}) / scaler.writeCapacity({min, max})
SetCapacity ==
  /\ scpc = "built"
  /\ \E key \in {"readCapacity", "writeCapacity"}, range \in Ranges :
       scaler' = Put(scaler, key, [min |-> range.min, max |-> range.max])
  /\ UNCHANGED <<scNew, scArg, scpc, scTargets, scError, pagVars, batchVars,
                 streamVars, callVars, ctVars, exec2>>

\* scaler.indexName(indexName)
SetIndexName ==
  /\ scpc = "built"
  /\ scaler' = Put(scaler, "indexName", "myindex")
  /\ UNCHANGED <<scNew, scArg, scpc, scTargets, scError, pagVars, batchVars,
                 streamVars, callVars, ctVars, exec2>>

\* scaler.exec(): scale(this.options) hands every task to
\* registerScalableTarget, in order
ScalerExec ==
  /\ scpc = "built"
  /\ scTargets' = scale(scaler)
  /\ scpc' = "registering"
  /\ UNCHANGED <<scNew, scArg, scaler, scError, pagVars, batchVars,
                 streamVars, callVars, ctVars, exec2>>

\* the registrations are answered: exec resolves, or rejects with an error
ScalerAnswer ==
  /\ scpc = "registering"
  /\ \/ scpc' = "done" /\ scError' = scError
     \/ /\ scTargets # <<>>
        /\ \E err \in Errors : scpc' = "failed" /\ scError' = err
  /\ UNCHANGED <<scNew, scArg, scaler, scTargets, pagVars, batchVars,
                 streamVars, callVars, ctVars, exec2>>

----------------------------------------------------------------------------
MaxModels == 2     \* models handed to createTables

TablesInit(n) ==
  /\ nmodels = n
  /\ tpc = "idle"
  /\ tat = 0
  /\ tdata = FALSE
  /\ tout = 0
  /\ tlog = <<>>
  /\ terror = NoValue

\* createTables is not called, nor Scaler
NoTables ==
  /\ TablesInit(0)
  /\ scNew = TRUE /\ scArg = [role |-> "myrole"] /\ scaler = NoValue
  /\ scpc = "none" /\ scTargets = <<>> /\ scError = NoValue

----------------------------------------------------------------------------
PagInit ==
  /\ opRequest = [x \in {} |-> 0]
  /\ loadAll = FALSE
  /\ pc = "idle"
  /\ lastEvaluatedKey = Null
  /\ retry = FALSE
  /\ responses = <<>>
  /\ result = NoValue
  /\ error = NoValue
  /\ sent = <<>>
  /\ outcomes = <<>>
  /\ execs = 0
  /\ calls = 0
  /\ exec2 = NoCall
  /\ performRequest = FALSE
  /\ reading = FALSE
  /\ timers = 0
  /\ pushed = <<>>
  /\ emitted = <<>>

\* getItems(keys, options) about to be called with n scalar hash keys
BatchInit(n, options) ==
  /\ inputKeys = [i \in 1..n |-> i]
  /\ inputOptions = options
  /\ arrays = [keys |-> [i \in 1..n |-> i]]
  /\ callerOptions = options
  /\ gpc = "idle"
  /\ bucket = <<>>
  /\ bsent = <<>>
  /\ arrivals = <<>>
  /\ gresult = Unresolved
  /\ gerror = NoValue

\* update(item, options) about to be called
UpdateInit(sch, it, opts) ==
  /\ updSchema = sch
  /\ updItemIn = it
  /\ updItem = it
  /\ updOptions = opts
  /\ upc = "idle"
  /\ updParams = NoValue
  /\ updated = NoValue
  /\ uerror = NoValue
  /\ hookAt = 0

\* the table with its listeners registered
TableInit(listeners) ==
  /\ beforeListeners = listeners
  /\ trace = <<>>

\* the call meth(arg, options) about to be made
CallInit(meth, arg, options) ==
  /\ method = meth
  /\ crArg = arg
  /\ crOptionsIn = options
  /\ crOptions = options
  /\ cpc = "idle"
  /\ crco = <<>>
  /\ cresult = NoValue
  /\ cerror = NoValue

NoListeners == [create |-> <<>>, update |-> <<>>]
One(it) == [array |-> FALSE, items |-> <<it>>]
Many(its) == [array |-> TRUE, items |-> its]

NoUpdate ==
  /\ UpdateInit([hashKey |-> "email", timestamps |-> FALSE], <<>>, EmptyObject)
  /\ TableInit(NoListeners)
  /\ CallInit("none", One(<<>>), EmptyObject)

OptionChoices == {EmptyObject, [ConsistentRead |-> TRUE]}
KeyCounts == {0, 2, BucketSize, BucketSize + 1}

\* query / scan exec()
Init == PagInit /\ BatchInit(0, EmptyObject) /\ NoUpdate /\ NoTables

PagNext == Exec \/ PageOk \/ PageRetryable \/ PageFatal

Next == PagNext

Spec == Init /\ [][Next]_vars

\* exec() and streamRequest on one builder, one after the other
StreamNext == StreamOpen \/ Read \/ StreamPageOk \/ StreamRetryable
                \/ StreamTimer \/ StreamFatal

SpecStream == Init /\ [][PagNext \/ StreamNext]_vars

\* two calls of exec() on one builder, the second made while or after the
\* first runs
OverlapNext == PagNext \/ OtherExec \/ OtherPageOk \/ OtherPageError

SpecOverlap == Init /\ [][OverlapNext]_vars

\* Table.update with its gateway
Schemas ==
  { [hashKey |-> "email", timestamps |-> b] : b \in BOOLEAN }
  \cup { [hashKey |-> "email", rangeKey |-> "ts", timestamps |-> b] :
           b \in BOOLEAN }

KeyParts(sch) ==
  { <<Pair("email", h)>>
      \o (IF Has(sch, "rangeKey") THEN <<Pair("ts", Num("0"))>> ELSE <<>>) :
    h \in {Num("0"), Str("a")} }

NameValues == {Str("Tim"), NullValue, Num("0")}
TagsValues == {AddOp(<<"x", "y">>), DelOp(<<"x">>), NullValue, Arr(<<"x", "y">>)}

AgeParts == {<<>>, <<Pair("age", NullValue)>>}

AttributeParts ==
  {<<>>}
  \cup { <<Pair("name", v)>> : v \in NameValues }
  \cup { <<Pair("tags", v)>> : v \in TagsValues }
  \cup { <<Pair("name", v), Pair("tags", w)>> : v \in NameValues, w \in TagsValues }
  \cup { <<Pair("tags", w), Pair("name", v)>> : v \in NameValues, w \in TagsValues }

UpdateOptions ==
  { EmptyObject,
    [ReturnValues |-> "ALL_OLD"],
    [UpdateExpression |-> <<"ADD", "#color", ":c">>,
     ExpressionAttributeValues |-> (":c" :> Str("red")),
     ExpressionAttributeNames |-> ("#color" :> "color")],
    [UpdateExpression |->
       <<"SET", "#color", "=", ":c", ",", "#size", "=", ":s", "REMOVE", "#old">>,
     ExpressionAttributeValues |-> (":c" :> Str("red") @@ ":s" :> Num("1")),
     ExpressionAttributeNames |->
       ("#color" :> "color" @@ "#size" :> "size" @@ "#old" :> "old")],
    [ExpressionAttributeValues |-> (":name" :> Str("Bob")),
     ExpressionAttributeNames |-> ("#name" :> "fullname")],
    [ExpressionAttributeValues |-> (":tags" :> Arr(<<"z">>))] }

\* expected maps, in the order of their keys
ExpectedName == <<Pair("name", Str("Foo Bar"))>>
ExpectedExists == <<Pair("name", ExistsOp(TRUE)), Pair("age", NeOp(Num("23")))>>
ExpectedAbsent == <<Pair("email", ExistsOp(FALSE))>>
ExpectedThree ==
  <<Pair("age", Num("1")), Pair("name", NeOp(Str("y"))),
    Pair("tags", ExistsOp(TRUE))>>

ExpectedOptions ==
  { [expected |-> ExpectedName, ReturnValues |-> "ALL_OLD"],
    [expected |-> ExpectedExists],
    [expected |-> ExpectedAbsent],
    [expected |-> <<>>],
    [expected |-> ExpectedThree,
     ExpressionAttributeValues |-> (":name_2" :> Str("Bob")),
     ExpressionAttributeNames |-> ("#nm" :> "name")],
    [expected |-> ExpectedName,
     ConditionExpression |-> <<"#color", "=", ":c">>,
     ExpressionAttributeValues |-> (":c" :> Str("red")),
     ExpressionAttributeNames |-> ("#color" :> "color")] }

\* the lists of listeners registered for one event
Listeners == {"name", "age", "fail"}
ListenerLists ==
  UNION { [1..n -> Listeners] : n \in 0..MaxListeners }

UpdateStart ==
  /\ PagInit /\ BatchInit(0, EmptyObject) /\ NoTables
  /\ \/ \E sch \in Schemas, attrs \in AttributeParts,
            opts \in UpdateOptions \cup ExpectedOptions :
          \E keys \in KeyParts(sch), age \in AgeParts :
            /\ UpdateInit(sch, keys \o age \o attrs, opts)
            /\ TableInit(NoListeners)
     \/ \E sch \in Schemas, opts \in UpdateOptions \cup ExpectedOptions,
            ls \in ListenerLists :
          \E keys \in KeyParts(sch) :
            /\ UpdateInit(sch, keys \o <<Pair("name", Str("Tim"))>>, opts)
            /\ TableInit([create |-> <<"fail">>, update |-> ls])
  /\ CallInit("update", One(<<>>), EmptyObject)

UpdateNext ==
  Update \/ UpdateBefore \/ UpdateSend \/ UpdateReply \/ UpdateFails

\* Table.create, Table.update and Table.destroy with their listeners and
\* their gateway
Account(h) == <<Pair("email", Str(h)), Pair("name", Str("Bob Tester"))>>
AccountAt(h) == <<Pair("email", Str(h)), Pair("ts", Num("0")),
                  Pair("name", Str("Bob Tester"))>>

CallArgs(sch) ==
  LET item(h) == IF Has(sch, "rangeKey") THEN AccountAt(h) ELSE Account(h)
  IN { One(item("a")), Many(<<>>), Many(<<item("a")>>),
       Many(<<item("a"), item("b")>>) }

CallOptions ==
  { EmptyObject,
    [overwrite |-> FALSE],
    [overwrite |-> TRUE],
    [expected |-> ExpectedName],
    [expected |-> ExpectedExists, overwrite |-> FALSE],
    [expected |-> ExpectedAbsent, ReturnValues |-> "ALL_OLD"],
    [expected |-> ExpectedName,
     ConditionExpression |-> <<"#color", "=", ":c">>,
     ExpressionAttributeValues |-> (":c" :> Str("red")),
     ExpressionAttributeNames |-> ("#color" :> "color")] }

TableStart ==
  /\ PagInit /\ BatchInit(0, EmptyObject) /\ NoTables
  /\ \E sch \in Schemas, ls \in ListenerLists, other \in {<<>>, <<"fail">>} :
       \/ \E arg \in CallArgs(sch), opts \in CallOptions :
            /\ UpdateInit(sch, <<>>, EmptyObject)
            /\ TableInit([create |-> ls, update |-> other])
            /\ CallInit("create", arg, opts)
       \/ \E opts \in CallOptions \ {[overwrite |-> FALSE], [overwrite |-> TRUE]} :
            /\ UpdateInit(sch, <<>>, EmptyObject)
            /\ TableInit([create |-> ls, update |-> other])
            /\ CallInit("destroy",
                        One(IF Has(sch, "rangeKey")
                            THEN <<Pair("email", Str("a")), Pair("ts", Num("0"))>>
                            ELSE <<Pair("email", Str("a"))>>),
                        [k \in DOMAIN opts \ {"overwrite"} |-> opts[k]])
       \/ \E opts \in CallOptions \ {[overwrite |-> FALSE], [overwrite |-> TRUE]} :
            /\ UpdateInit(sch, IF Has(sch, "rangeKey") THEN AccountAt("a")
                                ELSE Account("a"),
                          [k \in DOMAIN opts \ {"overwrite"} |-> opts[k]])
            /\ TableInit([create |-> other, update |-> ls])
            /\ CallInit("update", One(<<>>), EmptyObject)

TableNext ==
  \/ UpdateNext
  \/ Create \/ CreateBefore \/ CreateSend \/ Destroy \/ CallReply \/ CallFails

SpecTable == TableStart /\ [][TableNext]_vars

SpecUpdate == UpdateStart /\ [][UpdateNext]_vars

\* createTables with no, one or two models
TablesStart ==
  /\ PagInit /\ BatchInit(0, EmptyObject) /\ NoUpdate
  /\ \E n \in 0..MaxModels : TablesInit(n)
  /\ scNew = TRUE /\ scArg = [role |-> "myrole"] /\ scaler = NoValue
  /\ scpc = "none" /\ scTargets = <<>> /\ scError = NoValue

TablesNext ==
  \/ CreateTables \/ DescribeAnswer \/ CreateTableAnswer \/ SyncAnswer
  \/ IndexAnswer \/ PollAnswer \/ PollTimer

SpecTables == TablesStart /\ [][TablesNext]_vars

\* the options objects handed to Scaler
ScalerOptions ==
  UNION { UNION { { Merge(Merge([role |-> role], idx), Merge(rd, wr)) :
                      rd \in {EmptyObject} \cup {[readCapacity |-> r] : r \in Ranges},
                      wr \in {EmptyObject} \cup {[writeCapacity |-> r] : r \in Ranges} } :
                  idx \in {EmptyObject, [indexName |-> "myindex"]} } :
          role \in {"myrole", "otherrole"} }

ScalerStart ==
  /\ PagInit /\ BatchInit(0, EmptyObject) /\ NoUpdate /\ TablesInit(0)
  /\ scNew \in BOOLEAN
  /\ scArg \in ScalerOptions
  /\ scaler = NoValue
  /\ scpc = "idle"
  /\ scTargets = <<>>
  /\ scError = NoValue

ScalerNext ==
  ScalerCall \/ SetCapacity \/ SetIndexName \/ ScalerExec \/ ScalerAnswer

SpecScaler == ScalerStart /\ [][ScalerNext]_vars

\* getItems with its gateway
BatchStart ==
  /\ PagInit /\ NoUpdate /\ NoTables
  /\ \E n \in KeyCounts, o \in OptionChoices : BatchInit(n, o)

BatchNext == GetItems \/ BatchOk \/ BatchRetryable \/ BatchFatal

SpecBatch == BatchStart /\ [][BatchNext]_vars

\* one run of exec() or of getItems with two keys, against a gateway that
\* answers every request in the end; its pages carry a cursor or nothing
BarePages ==
  \A i \in DOMAIN outcomes :
    outcomes[i].kind = "page" =>
      DOMAIN outcomes[i].page \subseteq {"LastEvaluatedKey"}

RetryStart ==
  /\ PagInit /\ NoUpdate /\ NoTables
  /\ \/ BatchInit(0, EmptyObject)
     \/ \E o \in OptionChoices : BatchInit(2, o)

RetryNext ==
  \/ inputKeys = <<>> /\ PagNext /\ BarePages'
  \/ inputKeys # <<>> /\ BatchNext

SpecRetry ==
  /\ RetryStart /\ [][RetryNext]_vars
  /\ WF_outcomes(inputKeys = <<>> /\ PagNext /\ BarePages')
  /\ WF_arrivals(inputKeys # <<>> /\ BatchNext)

\* getItems up to its first requests, for every number of keys
BucketsStart ==
  /\ PagInit /\ NoUpdate /\ NoTables
  /\ \E n \in 0..MaxKeys, o \in OptionChoices : BatchInit(n, o)

SpecBuckets == BucketsStart /\ [][GetItems]_vars

----------------------------------------------------------------------------
\* Readings of the gateway log of the current exec().
IsPage(o) == o.kind = "page"
IsRetryableError(o) == o.kind = "error" /\ Flagged(o.err)
IsFatalError(o) == o.kind = "error" /\ ~Flagged(o.err)
PageIdx == {i \in 1..Len(outcomes) : IsPage(outcomes[i])}
RetryIdx == {i \in 1..Len(outcomes) : IsRetryableError(outcomes[i])}
FatalIdx == {i \in 1..Len(outcomes) : IsFatalError(outcomes[i])}
CursorOf(o) == IF Has(o.page, "LastEvaluatedKey") THEN o.page.LastEvaluatedKey ELSE Null
StartKeyOf(req) == IF Has(req, "ExclusiveStartKey") THEN req.ExclusiveStartKey ELSE Null

\* the pages the gateway answered with, in the order of their requests
RECURSIVE LoggedPages(_)
LoggedPages(log) ==
  IF log = <<>> THEN <<>>
  ELSE (IF IsPage(Head(log)) THEN <<Head(log).page>> ELSE <<>>)
       \o LoggedPages(Tail(log))

RECURSIVE AllItems(_)
AllItems(pages) ==
  IF pages = <<>> THEN <<>>
  ELSE (IF Has(Head(pages), "Items") THEN Head(pages).Items ELSE <<>>)
       \o AllItems(Tail(pages))

RECURSIVE Total(_, _)
Total(pages, field) ==
  IF pages = <<>> THEN 0
  ELSE OrZero(Head(pages), field) + Total(Tail(pages), field)

RECURSIVE TotalCapacity(_)
TotalCapacity(pages) ==
  IF pages = <<>> THEN 0
  ELSE (IF Has(Head(pages), "ConsumedCapacity")
        THEN OrZero(Head(pages).ConsumedCapacity, "CapacityUnits") ELSE 0)
       + TotalCapacity(Tail(pages))

\* C1: with loadAll = true, a page that carries LastEvaluatedKey = c is
\* followed by a request with ExclusiveStartKey = c, and the call stops,
\* with no further request, exactly after the first page that carries no
\* LastEvaluatedKey.
C1_CursorChained ==
  (execs >= 1 /\ loadAll) =>
    /\ \A i \in PageIdx :
         IF CursorOf(outcomes[i]) # Null
         THEN i < Len(sent) /\ StartKeyOf(sent[i + 1]) = CursorOf(outcomes[i])
         ELSE i = Len(sent) /\ pc = "done"
    /\ pc = "done" =>
         /\ Len(outcomes) = Len(sent)
         /\ IsPage(outcomes[Len(outcomes)])
         /\ CursorOf(outcomes[Len(outcomes)]) = Null
    /\ (pc = "wait") = (Len(sent) = Len(outcomes) + 1)

C1_Witness ==
  /\ loadAll /\ pc = "done" /\ Len(responses) >= 3
  /\ StartKeyOf(sent[2]) # StartKeyOf(sent[3])

\* C2: with loadAll = false exactly one page is fetched: the call is done
\* after the first page, with or without LastEvaluatedKey, and the gateway
\* calls are one more than the retryable failures.
C2_SinglePage ==
  (execs >= 1 /\ ~loadAll) =>
    /\ \A i \in PageIdx : i = Len(sent) /\ pc = "done"
    /\ pc = "done" =>
         /\ Cardinality(PageIdx) = 1
         /\ Len(responses) = 1
         /\ Len(sent) = 1 + Cardinality(RetryIdx)

C2_Witness ==
  /\ ~loadAll /\ pc = "done" /\ Len(sent) = 3
  /\ CursorOf(outcomes[3]) # Null

\* C3: a retryable failure is followed by a request equal to the failed one
\* (same ExclusiveStartKey, or none); the builder's cursor and the pages
\* collected are left as they were.
C3_RetrySameRequest ==
  [][ (pc = "wait" /\ Len(outcomes') = Len(outcomes) + 1
         /\ IsRetryableError(outcomes'[Len(outcomes')]))
      => /\ pc' = "wait"
         /\ Len(sent') = Len(sent) + 1
         /\ sent'[Len(sent')] = sent[Len(sent)]
         /\ opRequest' = opRequest
         /\ lastEvaluatedKey' = lastEvaluatedKey
         /\ responses' = responses ]_vars

C3_Witness ==
  /\ Len(sent) = 3 /\ 2 \in RetryIdx /\ 1 \in PageIdx
  /\ StartKeyOf(sent[3]) # Null /\ Len(responses) = 1

\* C4: a failure that is not retryable fails exec() with that error; no
\* further request is issued and nothing is returned, whatever was fetched.
C4_FatalPropagates ==
  /\ \A i \in FatalIdx :
       /\ i = Len(sent)
       /\ pc = "failed"
       /\ error = outcomes[i].err
       /\ result = NoValue
  /\ pc = "failed" => Len(outcomes) \in FatalIdx

C4_Witness ==
  /\ pc = "failed" /\ Len(responses) = 2 /\ Len(sent) = 3
  /\ Len(AllItems(responses)) > 0

\* C5: the aggregate's Items are the Items of the fetched pages, in request
\* order, and its Count is the sum of their Count.
C5_ItemsConcatenated ==
  pc = "done" =>
    /\ result.Items = AllItems(LoggedPages(outcomes))
    /\ result.Count = Total(LoggedPages(outcomes), "Count")

C5_Witness ==
  /\ pc = "done" /\ Len(responses) = 3 /\ RetryIdx # {}
  /\ Len(result.Items) >= 4

\* C6: ScannedCount (ConsumedCapacity) is absent from the aggregate when the
\* pages' ScannedCount (CapacityUnits) sum to zero, and holds the sum
\* otherwise.
C6_ZeroSumsAbsent ==
  pc = "done" =>
    LET pages == LoggedPages(outcomes)
        scanned == Total(pages, "ScannedCount")
        units == TotalCapacity(pages)
    IN /\ Has(result, "ScannedCount") = (scanned # 0)
       /\ Has(result, "ScannedCount") => result.ScannedCount = scanned
       /\ Has(result, "ConsumedCapacity") = (units # 0)
       /\ Has(result, "ConsumedCapacity") =>
            result.ConsumedCapacity.CapacityUnits = units

C6_Witness ==
  /\ pc = "done" /\ Len(responses) = 2
  /\ ~Has(result, "ScannedCount") /\ Has(result, "ConsumedCapacity")
  /\ Has(responses[1], "ScannedCount")

C6_WitnessBothAbsent ==
  /\ pc = "done" /\ Len(responses) = 2
  /\ ~Has(result, "ScannedCount") /\ ~Has(result, "ConsumedCapacity")

----------------------------------------------------------------------------
\* Readings of the batchGet log.
Answered(i) == bsent[i].answer.kind # "none"
AnsweredOk(i) == bsent[i].answer.kind = "ok"
AnsweredRetryable(i) ==
  bsent[i].answer.kind = "error" /\ Flagged(bsent[i].answer.err)
AnsweredFatal(i) ==
  bsent[i].answer.kind = "error" /\ ~Flagged(bsent[i].answer.err)
LaterCalls(i) ==
  {j \in (i + 1)..Len(bsent) : bsent[j].bucket = bsent[i].bucket}
\* the bucket's next call after call i (0 when there is none)
NextCall(i) ==
  IF LaterCalls(i) = {} THEN 0
  ELSE CHOOSE j \in LaterCalls(i) : \A k \in LaterCalls(i) : j <= k
LeftUnprocessed(i) ==
  /\ AnsweredOk(i)
  /\ Has(bsent[i].answer.response, "UnprocessedKeys")
  /\ DOMAIN bsent[i].answer.response.UnprocessedKeys # {}

\* the items the gateway returned to bucket b, in the order of its calls
RECURSIVE ReturnedItems(_, _)
ReturnedItems(log, b) ==
  IF log = <<>> THEN <<>>
  ELSE LET e == Head(log)
           here == IF e.bucket = b /\ e.answer.kind = "ok"
                      /\ Has(e.answer.response, "Responses")
                   THEN e.answer.response.Responses[TableName] ELSE <<>>
       IN here \o ReturnedItems(Tail(log), b)

\* C7: N keys make ceil(N/100) first requests, whose Keys are the
\* successive slices of 100 serialized input keys, the last one shorter;
\* no key is dropped or repeated and N = 0 makes no request.
C7_BucketsPartition ==
  gpc # "idle" =>
    LET n == Len(inputKeys)
        nb == (n + 99) \div 100
    IN /\ Len(bucket) = nb
       /\ Len(bsent) = nb
       /\ \A b \in 1..nb :
            LET ks == RequestKeys(bsent[b].request)
                size == IF b < nb THEN 100 ELSE n - 100 * (nb - 1)
            IN /\ Len(ks) = size
               /\ \A i \in 1..size : ks[i] = buildKey(inputKeys[100 * (b - 1) + i])

C7_Witness ==
  /\ gpc = "running" /\ Len(inputKeys) = 250 /\ Len(bsent) = 3
  /\ Len(RequestKeys(bsent[1].request)) = 100
  /\ Len(RequestKeys(bsent[2].request)) = 100
  /\ Len(RequestKeys(bsent[3].request)) = 50

C7_WitnessNoKeys == gpc = "done" /\ Len(inputKeys) = 0 /\ bsent = <<>>

\* C8: after a response with non-empty UnprocessedKeys the bucket's next
\* request is { RequestItems: UnprocessedKeys } and nothing else; after a
\* response without unprocessed keys the bucket sends nothing more.
C8_UnprocessedResent ==
  \A i \in 1..Len(bsent) :
    AnsweredOk(i) =>
      IF LeftUnprocessed(i)
      THEN /\ NextCall(i) # 0
           /\ bsent[NextCall(i)].request =
                [RequestItems |-> bsent[i].answer.response.UnprocessedKeys]
      ELSE /\ NextCall(i) = 0
           /\ bucket[bsent[i].bucket].st = "done"

C8_Witness ==
  /\ Has(inputOptions, "ConsistentRead")
  /\ \E i \in 1..Len(bsent) :
       /\ LeftUnprocessed(i) /\ NextCall(i) # 0
       /\ Len(RequestKeys(bsent[i].request)) = 100
       /\ Has(bsent[i].request.RequestItems[TableName], "ConsistentRead")
       /\ ~Has(bsent[NextCall(i)].request.RequestItems[TableName], "ConsistentRead")
       /\ LeftUnprocessed(NextCall(i))
       /\ NextCall(NextCall(i)) # 0
       /\ AnsweredOk(NextCall(NextCall(i)))
       /\ bucket[bsent[i].bucket].st = "done"

\* C9: getItems leaves the caller's keys array and options object as they
\* were passed, while it runs and after it has succeeded or failed.
C9_ArgumentsUntouched ==
  /\ arrays["keys"] = inputKeys
  /\ callerOptions = inputOptions

C9_Witness ==
  /\ gpc = "failed" /\ Len(inputKeys) = 101 /\ Has(inputOptions, "ConsistentRead")
  /\ \E b \in 1..Len(bucket) : bucket[b].st = "done"

C9_WitnessDone ==
  /\ gpc = "done" /\ Len(inputKeys) = 101 /\ Has(inputOptions, "ConsistentRead")

\* C10: a retryable failure makes the bucket send the failed request again,
\* unreduced, with the responses collected so far kept; the bucket's items
\* are those of all its successful responses.
C10_RetrySameBatch ==
  /\ [][ \A i \in 1..Len(bsent) :
           (~Answered(i) /\ bsent'[i].answer.kind = "error"
              /\ Flagged(bsent'[i].answer.err))
           => LET b == bsent[i].bucket
              IN /\ Len(bsent') = Len(bsent) + 1
                 /\ bsent'[Len(bsent')].bucket = b
                 /\ bsent'[Len(bsent')].request = bsent[i].request
                 /\ bucket'[b].st = "wait"
                 /\ bucket'[b].responses = bucket[b].responses ]_vars
  /\ [](\A b \in 1..Len(bucket) :
          bucket[b].st = "done" =>
            bucket[b].items =
              [k \in 1..Len(ReturnedItems(bsent, b)) |->
                 initItem(deserializeItem(ReturnedItems(bsent, b)[k]))])

C10_Witness ==
  /\ gpc = "done" /\ Len(inputKeys) = 100 /\ Len(bsent) = 3
  /\ LeftUnprocessed(1) /\ AnsweredRetryable(2) /\ AnsweredOk(3)
  /\ Len(gresult) = 100

----------------------------------------------------------------------------
\* the positions in arrivals of the answers that were fatal errors
FatalArrivals == {k \in 1..Len(arrivals) : AnsweredFatal(arrivals[k])}
FirstFatal == arrivals[CHOOSE k \in FatalArrivals : \A j \in FatalArrivals : k <= j]

\* C11 as stated: whenever a batchGet call has failed with an error not
\* flagged retryable, getItems has failed with that very error and without
\* items, and the bucket has sent nothing more.
C11_EveryFatalIsTheError ==
  \A i \in 1..Len(bsent) :
    AnsweredFatal(i) =>
      /\ gpc = "failed"
      /\ gerror = bsent[i].answer.err
      /\ gresult = Unresolved
      /\ LaterCalls(i) = {}

\* C11, amended: getItems fails exactly when some batchGet call has failed
\* with an error not flagged retryable; it fails with the error of the first
\* such call to be answered and returns no items; a later such failure of
\* another bucket changes nothing; the failing bucket sends nothing more, so
\* one bucket failing on its first request has made exactly one call.
C11_FirstFatalFails ==
  /\ (gpc = "failed") = (FatalArrivals # {})
  /\ FatalArrivals # {} =>
       /\ gerror = bsent[FirstFatal].answer.err
       /\ gresult = Unresolved
  /\ \A i \in 1..Len(bsent) :
       /\ Answered(i) = (\E k \in 1..Len(arrivals) : arrivals[k] = i)
       /\ AnsweredFatal(i) =>
            /\ LaterCalls(i) = {}
            /\ bucket[bsent[i].bucket].st = "failed"
  /\ (Len(bucket) = 1 /\ AnsweredFatal(1)) => Len(bsent) = 1

C11_Witness ==
  /\ gpc = "failed" /\ Len(bucket) = 2
  /\ bucket[1].st = "failed" /\ bucket[2].st = "failed"
  /\ bsent[FirstFatal].bucket = 2
  /\ Len(bucket[1].responses) > 0
  /\ gerror # bsent[bucket[1].at].answer.err

C11_WitnessOneCall ==
  /\ gpc = "failed" /\ Len(bucket) = 1 /\ Len(bsent) = 1
  /\ Len(inputKeys) = 100

----------------------------------------------------------------------------
\* the calls the gateway has not answered yet, and the buckets they belong to
InFlight == {i \in 1..Len(bsent) : ~Answered(i)}
InFlightOf(b) == {i \in InFlight : bsent[i].bucket = b}
BucketsInFlight == {bsent[i].bucket : i \in InFlight}

\* C12: the buckets of one getItems call that have a request in flight are
\* never more than a fixed cap; a cap of two buckets is the largest one that
\* the 201 to 250 keys of this model can exceed.
C12_FanOutCapped == Cardinality(BucketsInFlight) <= 2

\* what the code does instead: once dispatched, every bucket is in flight
C12_AllBucketsInFlight ==
  gpc = "running" =>
    Cardinality(BucketsInFlight) = (Len(inputKeys) + 99) \div 100

----------------------------------------------------------------------------
\* the item arrays of the successful responses among the calls listed, in
\* the order listed
RECURSIVE ItemsOfCalls(_)
ItemsOfCalls(idx) ==
  IF idx = <<>> THEN <<>>
  ELSE LET a == bsent[Head(idx)].answer
           here == IF a.kind = "ok" /\ Has(a.response, "Responses")
                   THEN a.response.Responses[TableName] ELSE <<>>
       IN here \o ItemsOfCalls(Tail(idx))

\* the calls of bucket b, in the order in which they were answered
ArrivalsOf(b) == SelectSeq(arrivals, LAMBDA i : bsent[i].bucket = b)

AsItems(raw) == [k \in 1..Len(raw) |-> initItem(deserializeItem(raw[k]))]

RECURSIVE InBucketOrder(_)
InBucketOrder(b) ==
  IF b > Len(bucket) THEN <<>>
  ELSE ItemsOfCalls(ArrivalsOf(b)) \o InBucketOrder(b + 1)

\* C13 as stated: the items getItems returns are the responses' item arrays
\* concatenated in the order in which the responses were received, across
\* the retries of a bucket and across buckets.
C13_ReceptionOrder ==
  gpc = "done" => gresult = AsItems(ItemsOfCalls(arrivals))

\* C13, amended: the items getItems returns are the buckets' items in the
\* order of the buckets (the order of the input keys), whichever bucket was
\* answered first; within one bucket they are its responses' item arrays in
\* the order in which they were received.
C13_BucketOrder ==
  gpc = "done" => gresult = AsItems(InBucketOrder(1))

C13_Witness ==
  /\ gpc = "done" /\ Len(bucket) = 2 /\ Len(gresult) = 101
  /\ arrivals[1] = 2
  /\ Len(ArrivalsOf(1)) >= 2
  /\ LeftUnprocessed(1)
  /\ gresult # AsItems(ItemsOfCalls(arrivals))

----------------------------------------------------------------------------
\* how many times x occurs in a sequence
Occurrences(seq, x) == Cardinality({k \in 1..Len(seq) : seq[k] = x})

\* every item of every successful response, bucket after bucket
EveryReturnedItem == AsItems(ItemsOfCalls([i \in 1..Len(bsent) |-> i]))

\* C14: when getItems succeeds, each item occurs in its result as many
\* times as in the successful responses of all buckets taken together, the
\* responses received before a retry included.
C14_NothingLostOrDuplicated ==
  gpc = "done" =>
    /\ Len(gresult) = Len(EveryReturnedItem)
    /\ \A k \in 1..Len(gresult) :
         Occurrences(EveryReturnedItem, gresult[k]) = Occurrences(gresult, gresult[k])
    /\ \A k \in 1..Len(EveryReturnedItem) :
         Occurrences(gresult, EveryReturnedItem[k]) >= 1

C14_Witness ==
  /\ gpc = "done" /\ Len(bucket) = 2 /\ Len(gresult) = 101
  /\ \E i \in 1..Len(bsent) :
       /\ LeftUnprocessed(i) /\ Len(ItemsOfCalls(<<i>>)) > 0
       /\ NextCall(i) # 0 /\ AnsweredRetryable(NextCall(i))

----------------------------------------------------------------------------
\* C16: a bucket has at most one call in flight, and it is its latest one:
\* each of its calls was issued after all its earlier calls had returned or
\* failed; a bucket that has returned or thrown has none in flight.
C16_BucketSequential ==
  \A b \in 1..Len(bucket) :
    /\ Cardinality(InFlightOf(b)) <= 1
    /\ \A i \in InFlightOf(b) : LaterCalls(i) = {} /\ bucket[b].at = i
    /\ (bucket[b].st = "wait") = (InFlightOf(b) # {})
    /\ \A i, j \in 1..Len(arrivals) :
         (i < j /\ bsent[arrivals[i]].bucket = b /\ bsent[arrivals[j]].bucket = b)
           => arrivals[i] < arrivals[j]

C16_Witness ==
  /\ Len(bucket) = 2 /\ InFlightOf(1) = {4} /\ InFlightOf(2) = {2}
  /\ LeftUnprocessed(1) /\ AnsweredRetryable(3)
  /\ bsent[3].bucket = 1

----------------------------------------------------------------------------
\* C15: in exec() and in the stream alike, at most one gateway request is
\* in flight; a request is issued only once every earlier request of the
\* operation has returned or failed, and the stream's retry timer runs only
\* while nothing is in flight.
C15_OneRequestInFlight ==
  /\ [][ Len(sent') > Len(sent) => Len(outcomes') = Len(sent) ]_vars
  /\ [](/\ InFlightPages \in {0, 1}
        /\ timers \in {0, 1}
        /\ timers = 1 => InFlightPages = 0
        /\ pc = "wait" => InFlightPages = 1
        /\ pc \in {"idle", "done", "failed", "ended", "errored"} =>
             InFlightPages = 0 /\ timers = 0)

C15_Witness ==
  /\ pc = "stream" /\ loadAll /\ Len(sent) = 3 /\ Len(outcomes) = 2
  /\ 1 \in PageIdx /\ 2 \in RetryIdx /\ timers = 0
  /\ StartKeyOf(sent[3]) = CursorOf(outcomes[1])

C15_WitnessExec ==
  /\ pc = "wait" /\ loadAll /\ Len(sent) = 3 /\ Len(outcomes) = 2
  /\ 1 \in PageIdx /\ 2 \in RetryIdx

\* the pages pushed, without the end marker
PushedPages == SelectSeq(pushed, LAMBDA x : x # EndMarker)
\* page i of the log is one after which the stream is to end
EndsStream(i) == ~loadAll \/ CursorOf(outcomes[i]) = Null

\* C17: the stream has pushed exactly the pages fetched, in fetch order;
\* the end marker is pushed once, last, together with the first page that
\* ends the stream (any page when loadAll is false, a page without
\* LastEvaluatedKey when it is true); that page's request is the last one
\* issued and nothing is in flight or pending once the stream has ended.
C17_StreamEnds ==
  pc \in {"stream", "ended", "errored"} =>
    /\ PushedPages = LoggedPages(outcomes)
    /\ \A k \in 1..Len(pushed) : pushed[k] = EndMarker => k = Len(pushed)
    /\ Ended = (\E i \in PageIdx : EndsStream(i))
    /\ \A i \in PageIdx :
         EndsStream(i) => i = Len(sent) /\ i = Len(outcomes)
    /\ Ended = (pc = "ended")
    /\ Ended => InFlightPages = 0 /\ timers = 0 /\ ~performRequest

C17_Witness ==
  /\ pc = "ended" /\ loadAll /\ Len(pushed) = 4 /\ reading
  /\ RetryIdx # {}
  /\ CursorOf(outcomes[1]) # Null

C17_WitnessFirstPage ==
  /\ pc = "ended" /\ ~loadAll /\ Len(pushed) = 2
  /\ CursorOf(outcomes[Len(outcomes)]) # Null

----------------------------------------------------------------------------
\* Readings of the update request.
UpdateExpressionOf(request) ==
  IF Has(request, "UpdateExpression") THEN request.UpdateExpression ELSE <<>>
NamesOf(request) ==
  IF Has(request, "ExpressionAttributeNames")
  THEN request.ExpressionAttributeNames ELSE EmptyObject
ValuesOf(request) ==
  IF Has(request, "ExpressionAttributeValues")
  THEN request.ExpressionAttributeValues ELSE EmptyObject
Keyword(tok) == tok \in {"SET", "ADD", "REMOVE", "DELETE"}
Rank(word) ==
  CASE word = "SET" -> 1 [] word = "ADD" -> 2 [] word = "REMOVE" -> 3
    [] word = "DELETE" -> 4
\* the keyword that governs position p of an expression
GroupAt(str, p) ==
  LET before == {q \in 1..p : Keyword(str[q])}
  IN str[CHOOSE q \in before : \A r \in before : r <= q]
GroupOfShape(value) ==
  CASE value.t = "null" -> "REMOVE" [] value.t = "add" -> "ADD"
    [] value.t = "del" -> "DELETE" [] OTHER -> "SET"
KeyAttributes ==
  {updSchema.hashKey}
  \cup (IF Has(updSchema, "rangeKey") THEN {updSchema.rangeKey} ELSE {})
Positions(str, tok) == {p \in 1..Len(str) : str[p] = tok}

\* C18: each non-key attribute of the payload has exactly one clause in the
\* UpdateExpression, under the keyword its value calls for (REMOVE for null,
\* with no value alias; ADD for $add; DELETE for $del; SET otherwise); the
\* keywords come in the order SET, ADD, REMOVE, DELETE, each at most once
\* and none without a clause.
C18_GroupedInFixedOrder ==
  updParams # NoValue =>
    LET str == UpdateExpressionOf(updParams)
    IN /\ \A i \in 1..Len(updItem) :
            updItem[i].k \notin KeyAttributes =>
              LET a == updItem[i].k
                  at == Positions(str, "#" \o a)
                  group == GroupOfShape(updItem[i].v)
              IN /\ Cardinality(at) = 1
                 /\ \A p \in at :
                      /\ GroupAt(str, p) = group
                      /\ CASE group = "REMOVE" -> Positions(str, ":" \o a) = {}
                           [] group = "SET" ->
                                Positions(str, "=") \cap {p + 1} # {}
                                  /\ Positions(str, ":" \o a) = {p + 2}
                           [] OTHER -> Positions(str, ":" \o a) = {p + 1}
       /\ \A p, q \in 1..Len(str) :
            (p < q /\ Keyword(str[p]) /\ Keyword(str[q]))
              => Rank(str[p]) < Rank(str[q])
       /\ \A p \in 1..Len(str) :
            Keyword(str[p]) => p < Len(str) /\ ~Keyword(str[p + 1])
       /\ str # <<>> => Keyword(str[1])

C18_Witness ==
  /\ upc = "sent"
  /\ updItemIn = <<Pair("email", Str("a")), Pair("age", NullValue),
                   Pair("tags", AddOp(<<"x", "y">>)), Pair("name", Str("Tim"))>>
  /\ updOptions = EmptyObject
  /\ updParams.UpdateExpression =
       <<"SET", "#name", "=", ":name", "ADD", "#tags", ":tags", "REMOVE", "#age">>
  /\ updParams.ExpressionAttributeNames =
       ("#name" :> "name" @@ "#tags" :> "tags" @@ "#age" :> "age")

C18_WitnessDelete ==
  /\ upc = "sent"
  /\ UpdateExpressionOf(updParams) =
       <<"SET", "#name", "=", ":name", ",", "#updatedAt", "=", ":updatedAt",
         "REMOVE", "#age", "DELETE", "#tags", ":tags">>

----------------------------------------------------------------------------
\* the clauses under a keyword of an expression, commas included
Body(str, word) ==
  LET at == {p \in 1..Len(str) : ~Keyword(str[p]) /\ GroupAt(str, p) = word}
  IN IF at = {} THEN <<>>
     ELSE SubSeq(str, CHOOSE p \in at : \A q \in at : p <= q,
                      CHOOSE p \in at : \A q \in at : q <= p)
Joined(a, b) ==
  IF a = <<>> THEN b ELSE IF b = <<>> THEN a ELSE a \o <<",">> \o b
\* what the payload alone compiles to
Derived == updateExpressions(updSchema, updItem, EmptyObject)
CallerNames ==
  IF Has(updOptions, "ExpressionAttributeNames")
  THEN updOptions.ExpressionAttributeNames ELSE EmptyObject
CallerValues ==
  IF Has(updOptions, "ExpressionAttributeValues")
  THEN updOptions.ExpressionAttributeValues ELSE EmptyObject
CallerExpression ==
  IF Has(updOptions, "UpdateExpression") THEN updOptions.UpdateExpression
  ELSE <<>>

\* under each keyword, the derived clauses and then the caller's
ClausesAppended ==
  \A w \in {"SET", "ADD", "REMOVE", "DELETE"} :
    Body(UpdateExpressionOf(updParams), w) =
      Joined(Body(Derived.UpdateExpression, w), Body(CallerExpression, w))

\* the names of the request are the derived ones with the caller's over them
NamesCallerWins ==
  /\ DOMAIN Derived.ExpressionAttributeNames \cup DOMAIN CallerNames
       \subseteq DOMAIN NamesOf(updParams)
  /\ \A k \in DOMAIN Derived.ExpressionAttributeNames \cup DOMAIN CallerNames :
       NamesOf(updParams)[k] =
         IF k \in DOMAIN CallerNames THEN CallerNames[k]
         ELSE Derived.ExpressionAttributeNames[k]

\* C19: the caller's UpdateExpression clauses follow the derived ones under
\* each keyword, and the caller's names and values are merged over the
\* derived ones, the caller's entry being the one in the request whenever a
\* key is in both.
C19_CallerEntriesWin ==
  updParams # NoValue =>
    /\ ClausesAppended
    /\ NamesCallerWins
    /\ DOMAIN Derived.ExpressionAttributeValues \cup DOMAIN CallerValues
         \subseteq DOMAIN ValuesOf(updParams)
    /\ \A k \in DOMAIN Derived.ExpressionAttributeValues
                \cup DOMAIN CallerValues :
         ValuesOf(updParams)[k] =
           IF k \in DOMAIN CallerValues THEN CallerValues[k]
           ELSE Derived.ExpressionAttributeValues[k]

\* what holds of the values instead: the caller's entry is the one in the
\* request unless both entries are arrays, which are merged index by index
C19_ArraysMergedByIndex ==
  updParams # NoValue =>
    /\ ClausesAppended
    /\ NamesCallerWins
    /\ DOMAIN Derived.ExpressionAttributeValues \cup DOMAIN CallerValues
         \subseteq DOMAIN ValuesOf(updParams)
    /\ \A k \in DOMAIN Derived.ExpressionAttributeValues
                \cup DOMAIN CallerValues :
         LET got == ValuesOf(updParams)[k]
         IN IF k \notin DOMAIN CallerValues
            THEN got = Derived.ExpressionAttributeValues[k]
            ELSE IF k \in DOMAIN Derived.ExpressionAttributeValues
                    /\ Derived.ExpressionAttributeValues[k].t = "arr"
                    /\ CallerValues[k].t = "arr"
            THEN LET mine == Derived.ExpressionAttributeValues[k].v
                     theirs == CallerValues[k].v
                 IN /\ got.t = "arr"
                    /\ Len(got.v) = IF Len(mine) > Len(theirs) THEN Len(mine)
                                    ELSE Len(theirs)
                    /\ \A i \in 1..Len(got.v) :
                         got.v[i] = IF i <= Len(theirs) THEN theirs[i]
                                    ELSE mine[i]
            ELSE got = CallerValues[k]

C19_WitnessArrays ==
  /\ upc = "sent"
  /\ updItemIn = <<Pair("email", Str("a")), Pair("tags", Arr(<<"x", "y">>))>>
  /\ updOptions = [ExpressionAttributeValues |-> (":tags" :> Arr(<<"z">>))]
  /\ updParams.ExpressionAttributeValues = (":tags" :> Arr(<<"z", "y">>))

C19_WitnessAppended ==
  /\ upc = "sent" /\ ~updSchema.timestamps
  /\ UpdateExpressionOf(updParams) =
       <<"SET", "#name", "=", ":name", ",", "#color", "=", ":c", ",",
         "#size", "=", ":s", "REMOVE", "#age", ",", "#old">>

----------------------------------------------------------------------------
\* the payload that reached the compiler holds key attributes only, the
\* timestamp apart
OnlyKeyAttributes ==
  \A i \in 1..Len(updItem) : updItem[i].k \in KeyAttributes \cup {"updatedAt"}
ExpectedKeys ==
  IF Has(updOptions, "expected")
  THEN {updOptions.expected[i].k : i \in 1..Len(updOptions.expected)}
  ELSE {}
\* the request has no clause for a key attribute, and no alias for one but
\* that of an expected condition on it
NoKeyAlias ==
  \A a \in KeyAttributes :
    /\ Positions(UpdateExpressionOf(updParams), "#" \o a) = {}
    /\ Positions(UpdateExpressionOf(updParams), ":" \o a) = {}
    /\ a \notin ExpectedKeys => ("#" \o a) \notin DOMAIN NamesOf(updParams)
    /\ a \notin ExpectedKeys => (":" \o a) \notin DOMAIN ValuesOf(updParams)
\* Key holds the payload's key values as they were passed
KeyKept ==
  /\ DOMAIN updParams.Key = KeyAttributes
  /\ \A a \in KeyAttributes : updParams.Key[a] = valueOf(updItemIn, a)
NoExpressionEntries ==
  /\ ~Has(updParams, "UpdateExpression")
  /\ ~Has(updParams, "ExpressionAttributeNames")
  /\ ~Has(updParams, "ExpressionAttributeValues")

----------------------------------------------------------------------------
\* Conditions.
ConditionExpressionOf(request) ==
  IF Has(request, "ConditionExpression") THEN request.ConditionExpression
  ELSE <<>>

ExpectedOf(opts) == IF Has(opts, "expected") THEN opts.expected ELSE <<>>

\* the conditions of overwrite: false for the item of a createItem
GuardOf(opts, data) ==
  IF Has(opts, "overwrite") /\ opts.overwrite = FALSE
  THEN <<Pair("email", NeOp(valueOf(data, "email")))>>
         \o (IF Has(updSchema, "rangeKey")
             THEN <<Pair("ts", NeOp(valueOf(data, "ts")))>> ELSE <<>>)
  ELSE <<>>

\* the requests built so far, each with the options of its call and the
\* conditions it was to carry, in their order
Requests ==
  (IF updParams # NoValue
   THEN {[request |-> updParams, opts |-> updOptions,
          conditions |-> ExpectedOf(updOptions)]}
   ELSE {})
  \cup
  {[request |-> crco[i].params, opts |-> crOptionsIn,
    conditions |-> ExpectedOf(crOptionsIn) \o GuardOf(crOptionsIn, crco[i].data)] :
     i \in {j \in 1..Len(crco) : crco[j].params # NoValue}}

\* the stretches of an expression between its AND tokens
RECURSIVE SplitAnd(_, _)
SplitAnd(toks, cur) ==
  IF toks = <<>> THEN (IF cur = <<>> THEN <<>> ELSE <<cur>>)
  ELSE IF Head(toks) = "AND" THEN <<cur>> \o SplitAnd(Tail(toks), <<>>)
  ELSE SplitAnd(Tail(toks), Append(cur, Head(toks)))

\* group is the condition of one expected entry, in parentheses, with its
\* name and its value in the request
IsConditionOf(group, entry, request) ==
  LET name == "#" \o entry.k
      inner == SubSeq(group, 2, Len(group) - 1)
      binary(op, value) ==
        /\ Len(inner) = 3
        /\ inner[1] = name /\ inner[2] = op
        /\ inner[3] \in DOMAIN ValuesOf(request)
        /\ ValuesOf(request)[inner[3]] = value
  IN /\ Len(group) >= 2
     /\ group[1] = "(" /\ group[Len(group)] = ")"
     /\ name \in DOMAIN NamesOf(request)
     /\ NamesOf(request)[name] = entry.k
     /\ CASE entry.v.t = "exists" /\ entry.v.v = <<"true">> ->
               inner = <<"attribute_exists", "(", name, ")">>
          [] entry.v.t = "exists" /\ entry.v.v = <<"false">> ->
               inner = <<"attribute_not_exists", "(", name, ")">>
          [] entry.v.t = "ne" ->
               binary("<>", [t |-> entry.v.of, v |-> entry.v.v])
          [] OTHER -> binary("=", entry.v)

\* C21: the ConditionExpression of a request is made of one condition for
\* each key of the expected map, in key order and then, for a create with
\* overwrite: false, one `<>` condition for the hash key and one for the
\* range key: attribute_exists for { Exists: true }, attribute_not_exists
\* for { Exists: false }, `<>` for { '<>': v } and `=` otherwise, each in
\* parentheses, joined with AND, with its name and its value in the request
\* (the options pass no ConditionExpression of their own).
C21_ExpectedConditions ==
  \A r \in Requests :
    ~Has(r.opts, "ConditionExpression") =>
      LET groups == SplitAnd(ConditionExpressionOf(r.request), <<>>)
      IN /\ Len(groups) = Len(r.conditions)
         /\ \A i \in 1..Len(groups) :
              IsConditionOf(groups[i], r.conditions[i], r.request)

\* create with expected and overwrite: false on a table with a range key
C21_Witness ==
  /\ method = "create"
  /\ crOptionsIn = [expected |-> ExpectedExists, overwrite |-> FALSE]
  /\ Len(crco) = 1 /\ crco[1].st = "done"
  /\ crco[1].params.ConditionExpression =
       <<"(", "attribute_exists", "(", "#name", ")", ")", "AND",
         "(", "#age", "<>", ":age", ")", "AND",
         "(", "#email", "<>", ":email", ")", "AND",
         "(", "#ts", "<>", ":ts", ")">>
  /\ crco[1].params.ExpressionAttributeValues =
       (":age" :> Num("23") @@ ":email" :> Str("a") @@ ":ts" :> Num("0"))

\* create with overwrite: false alone
C21_WitnessOverwrite ==
  /\ method = "create"
  /\ crOptionsIn = [overwrite |-> FALSE]
  /\ Len(crco) = 1 /\ crco[1].st = "sent"
  /\ crco[1].params.ConditionExpression =
       <<"(", "#email", "<>", ":email", ")", "AND", "(", "#ts", "<>", ":ts", ")">>

\* the names and values of the update request before its expected
\* conditions are compiled: the derived ones with the caller's merged in
Existing == updateExpressions(updSchema, updItem, updOptions)

\* the value aliases of attribute p, in the order they are tried
Series(p) ==
  <<":" \o p, ":" \o p \o "_2", ":" \o p \o "_3", ":" \o p \o "_4">>

IsBinary(entry) == entry.v.t # "exists"

\* the value alias of the i-th condition of an expression (binary only)
AliasAt(str, i) == SplitAnd(str, <<>>)[i][4]

\* C22: in an update with expected conditions, the condition on attribute p
\* gets the first value alias of :p, :p_2, :p_3, ... that is neither in the
\* request's values before the conditions are compiled nor taken by an
\* earlier condition; the values bound before are left as they were; the
\* condition names the attribute by #p, which the names map binds to p, and
\* a SET clause for p names it by #p as well.
C22_FreshValueAlias ==
  (updParams # NoValue /\ ~Has(updOptions, "ConditionExpression")) =>
    LET conditions == ExpectedOf(updOptions)
        str == ConditionExpressionOf(updParams)
        groups == SplitAnd(str, <<>>)
        taken(i) ==
          DOMAIN Existing.ExpressionAttributeValues
          \cup {AliasAt(str, j) : j \in {k \in 1..(i - 1) : IsBinary(conditions[k])}}
    IN /\ Len(groups) = Len(conditions)
       /\ \A i \in 1..Len(conditions) :
            IsBinary(conditions[i]) =>
              LET p == conditions[i].k
                  alias == AliasAt(str, i)
              IN /\ alias \notin taken(i)
                 /\ \E n \in 1..Len(Series(p)) :
                      /\ alias = Series(p)[n]
                      /\ \A m \in 1..(n - 1) : Series(p)[m] \in taken(i)
                 /\ alias \in DOMAIN ValuesOf(updParams)
                 /\ groups[i][2] = "#" \o p
                 /\ NamesOf(updParams)["#" \o p] = p
                 /\ (hasKey(updItem, p) /\ valueOf(updItem, p).t \in {"str", "num"}
                       /\ p \notin KeyAttributes)
                      => Positions(UpdateExpressionOf(updParams), "#" \o p) # {}
       /\ \A k \in DOMAIN Existing.ExpressionAttributeValues :
            /\ k \in DOMAIN ValuesOf(updParams)
            /\ ValuesOf(updParams)[k] = Existing.ExpressionAttributeValues[k]

\* the update of the test: name is set and expected, the condition gets :name_2
C22_Witness ==
  /\ upc = "done"
  /\ updItemIn = <<Pair("email", Str("a")), Pair("name", Str("Tim"))>>
  /\ updOptions = [expected |-> ExpectedName, ReturnValues |-> "ALL_OLD"]
  /\ updParams.UpdateExpression = <<"SET", "#name", "=", ":name">>
  /\ updParams.ConditionExpression = <<"(", "#name", "=", ":name_2", ")">>
  /\ updParams.ExpressionAttributeValues =
       (":name" :> Str("Tim") @@ ":name_2" :> Str("Foo Bar"))
  /\ updParams.ExpressionAttributeNames = ("#name" :> "name")

\* :name from the SET clause and :name_2 from the caller: the condition gets
\* :name_3
C22_WitnessThird ==
  /\ upc = "sent"
  /\ updItemIn = <<Pair("email", Str("a")), Pair("name", Str("Tim"))>>
  /\ Has(updOptions, "expected") /\ updOptions.expected = ExpectedThree
  /\ updParams.ConditionExpression =
       <<"(", "#age", "=", ":age", ")", "AND",
         "(", "#name", "<>", ":name_3", ")", "AND",
         "(", "attribute_exists", "(", "#tags", ")", ")">>
  /\ updParams.ExpressionAttributeValues[":name_2"] = Str("Bob")
  /\ updParams.ExpressionAttributeValues[":name_3"] = Str("y")

\* the tokens of the request's expression strings
ExpressionTokens(request) ==
  {UpdateExpressionOf(request)[i] : i \in 1..Len(UpdateExpressionOf(request))}
  \cup {ConditionExpressionOf(request)[i] :
          i \in 1..Len(ConditionExpressionOf(request))}

\* the attributes a payload, an expected map or a caller's fragment names
AttributePaths ==
  {"email", "ts", "name", "age", "tags", "updatedAt", "color", "size", "old",
   "fullname"}
NameAliases == {"#" \o a : a \in AttributePaths}
ValueAliases ==
  UNION {{Series(a)[n] : n \in 1..Len(Series(a))} : a \in AttributePaths}
  \cup {":c", ":s"}
Punctuation ==
  {"SET", "ADD", "REMOVE", "DELETE", "AND", "(", ")", ",", "=", "<>",
   "attribute_exists", "attribute_not_exists"}

\* every alias of an expression string has its entry in the request
AliasesBound(request) ==
  /\ ExpressionTokens(request) \subseteq NameAliases \cup ValueAliases \cup Punctuation
  /\ ExpressionTokens(request) \cap NameAliases \subseteq DOMAIN NamesOf(request)
  /\ ExpressionTokens(request) \cap ValueAliases \subseteq DOMAIN ValuesOf(request)

\* the attributes the library compiles a clause or a condition for
CompiledPaths ==
  ({updItem[i].k : i \in 1..Len(updItem)} \ KeyAttributes) \cup ExpectedKeys

\* C23: in the request of an update, every name or value alias of an
\* expression string has an entry in the names or the values, and the alias
\* #p the library generated for the attribute p of a derived clause or of an
\* expected condition stands for p and for no other path.
C23_AliasesStandForOnePath ==
  updParams # NoValue =>
    /\ AliasesBound(updParams)
    /\ \A a \in CompiledPaths :
         /\ ("#" \o a) \in DOMAIN NamesOf(updParams)
         /\ NamesOf(updParams)["#" \o a] = a

\* what holds instead: the alias stands for p unless the caller's names
\* bind it, and then it stands for the caller's path
C23_AliasesUnlessCallers ==
  updParams # NoValue =>
    /\ AliasesBound(updParams)
    /\ \A a \in CompiledPaths :
         /\ ("#" \o a) \in DOMAIN NamesOf(updParams)
         /\ NamesOf(updParams)["#" \o a] =
              IF ("#" \o a) \in DOMAIN CallerNames THEN CallerNames["#" \o a]
              ELSE a

\* the derived SET clause on name is sent with #name bound to fullname
C23_WitnessOtherPath ==
  /\ upc = "sent"
  /\ updItemIn = <<Pair("email", Str("a")), Pair("name", Str("Tim"))>>
  /\ updParams.UpdateExpression = <<"SET", "#name", "=", ":name">>
  /\ updParams.ExpressionAttributeNames = ("#name" :> "fullname")

----------------------------------------------------------------------------
\* Listeners.

\* the events of one coroutine of the call, in the order they happened
EventsOf(i) == SelectSeq(trace, LAMBDA e : e.co = i)
BeforeOf(i) == SelectSeq(trace, LAMBDA e : e.co = i /\ e.ev = "before")
GatewayOf(i) == SelectSeq(trace, LAMBDA e : e.co = i /\ e.ev = "gateway")
AfterOf(i) == SelectSeq(trace, LAMBDA e : e.co = i /\ e.ev = "after")

\* the coroutines of the call made
Coroutines ==
  IF method = "update" THEN (IF upc = "idle" THEN {} ELSE {1})
  ELSE 1..Len(crco)

\* the listeners of the call made and the payload its pipeline starts with
Registered ==
  IF method = "update" THEN beforeListeners.update
  ELSE IF method = "create" THEN beforeListeners.create ELSE <<>>
InitialPayload(i) ==
  IF method = "update" THEN stampUpdatedAt(updSchema, updItemIn)
  ELSE stampCreatedAt(updSchema, crArg.items[i])

Threw(listener, data) == Has(runListener(listener, data), "error")
CallError == IF method = "update" THEN uerror ELSE cerror
CallFailed == IF method = "update" THEN upc = "failed" ELSE cpc = "failed"

C24_WitnessUpdate ==
  /\ method = "update"
  /\ beforeListeners.update = <<"name", "age">>
  /\ upc = "done"
  /\ Len(BeforeOf(1)) = 2
  /\ updItem = <<Pair("email", Str("a")), Pair("name", Str("Tommy")),
                 Pair("age", Str("25"))>>
  /\ updParams.ExpressionAttributeValues =
       (":name" :> Str("Tommy") @@ ":age" :> Str("25"))

\* the after events of the whole call
AfterEvents == SelectSeq(trace, LAMBDA e : e.ev = "after")
CallDone == IF method = "update" THEN upc = "done" ELSE cpc = "done"

\* the position of a coroutine
PositionOf(i) == IF method = "update" THEN upc ELSE crco[i].st

\* the place of the first event of a kind in the events of a coroutine
PlaceOf(i, kind) ==
  LET at == {k \in 1..Len(EventsOf(i)) : EventsOf(i)[k].ev = kind}
  IN CHOOSE k \in at : \A l \in at : k <= l

\* C25 as stated: the after event fires exactly once in a call that
\* succeeds, after its gateway request, and not at all in a call that fails.
C25_OncePerCall ==
  /\ CallDone => Len(AfterEvents) = 1
  /\ CallFailed => AfterEvents = <<>>
  /\ Len(AfterEvents) <= 1

\* C25, amended: the after event fires exactly once for each item of a
\* create, each update and each destroy whose gateway request has succeeded,
\* after that request and under the name of the call, and never for one
\* whose request, validation or listener failed; a create of an array fires
\* it once for each item put, whether or not the call fails on another item.
C25_OncePerItem ==
  /\ \A i \in Coroutines :
       /\ Len(AfterOf(i)) <= 1
       /\ PositionOf(i) = "done" <=> Len(AfterOf(i)) = 1
       /\ PositionOf(i) = "failed" => AfterOf(i) = <<>>
       /\ AfterOf(i) # <<>> =>
            /\ Len(GatewayOf(i)) = 1
            /\ PlaceOf(i, "gateway") < PlaceOf(i, "after")
            /\ AfterOf(i)[1].name = method
  /\ \A k \in 1..Len(trace) : trace[k].co \in Coroutines
  /\ (CallDone /\ ~(method = "create" /\ crArg.array)) => Len(AfterEvents) = 1
  /\ (CallDone /\ method = "create" /\ crArg.array) =>
       Len(AfterEvents) = Len(crArg.items)
  /\ (CallFailed /\ ~(method = "create" /\ crArg.array)) => AfterEvents = <<>>

\* a create of two items: the put of the second fails, the first was put
\* and its after event fired
C25_Witness ==
  /\ method = "create" /\ crArg = Many(<<Account("a"), Account("b")>>)
  /\ cpc = "failed"
  /\ crco[1].st = "done" /\ crco[2].st = "failed"
  /\ Len(GatewayOf(2)) = 1
  /\ AfterEvents = <<[ev |-> "after", co |-> 1, name |-> "create"]>>

\* an update, a destroy
C25_WitnessUpdate ==
  /\ method = "update" /\ upc = "done"
  /\ AfterEvents = <<[ev |-> "after", co |-> 1, name |-> "update"]>>
C25_WitnessDestroy ==
  /\ method = "destroy" /\ cpc = "done"
  /\ AfterEvents = <<[ev |-> "after", co |-> 1, name |-> "destroy"]>>

----------------------------------------------------------------------------
\* Validation.
GatewayEvents == SelectSeq(trace, LAMBDA e : e.ev = "gateway")

\* the payload of coroutine i has failed schema validation
Invalid(i) ==
  IF method = "update" THEN uerror = UpdateValidationError
  ELSE crco[i].error = ValidationError

\* C26 as stated: when a payload fails validation the call fails with the
\* validation error and no request of the call goes to the gateway.
C26_NothingSent ==
  \A i \in Coroutines :
    Invalid(i) =>
      /\ CallFailed
      /\ CallError \in {UpdateValidationError, ValidationError}
      /\ GatewayEvents = <<>>

\* C26, amended: no request goes to the gateway for a payload that fails
\* validation, and the call fails; update and a create of one item send
\* nothing at all and fail with the validation error; a create of an array
\* fails with the first error among its items, and the valid items are put.
C26_InvalidPayloadNotSent ==
  \A i \in Coroutines :
    Invalid(i) =>
      /\ CallFailed
      /\ GatewayOf(i) = <<>>
      /\ AfterOf(i) = <<>>
      /\ method = "update" =>
           /\ CallError = UpdateValidationError
           /\ trace = <<>>
      /\ (method = "create" /\ ~crArg.array) =>
           /\ CallError = ValidationError
           /\ GatewayEvents = <<>>
      /\ (method = "create" /\ crArg.array) =>
           \E j \in Coroutines : crco[j].st = "failed" /\ crco[j].error = CallError

\* a create of two items: the first is put, the second fails validation
C26_Witness ==
  /\ method = "create" /\ crArg = Many(<<Account("a"), Account("b")>>)
  /\ beforeListeners.create = <<>>
  /\ cpc = "failed" /\ cerror = ValidationError
  /\ crco[2].error = ValidationError
  /\ crco[1].st = "done"
  /\ GatewayEvents = <<[ev |-> "gateway", co |-> 1, op |-> "put"]>>

\* a create of one item that fails validation after its listeners have run
C26_WitnessOne ==
  /\ method = "create" /\ crArg = One(Account("a"))
  /\ beforeListeners.create = <<"name">>
  /\ cpc = "failed" /\ cerror = ValidationError
  /\ Len(trace) = 1

\* an update that fails validation
C26_WitnessUpdate ==
  /\ method = "update"
  /\ upc = "failed" /\ uerror = UpdateValidationError
  /\ trace = <<>> /\ updParams = NoValue

----------------------------------------------------------------------------
\* C27: no step of Table.update writes to the options object of the caller:
\* its entries, expected, UpdateExpression, ExpressionAttributeNames and
\* ExpressionAttributeValues among them, are after every step what they
\* were before it.
C27_OptionsUntouched == [][updOptions' = updOptions]_vars

\* the update of the test, done: its options were compiled into the request
C27_Witness ==
  /\ upc = "done"
  /\ updOptions = [expected |-> ExpectedName, ReturnValues |-> "ALL_OLD"]
  /\ updParams.ConditionExpression = <<"(", "#name", "=", ":name_2", ")">>
  /\ updParams.ReturnValues = "ALL_OLD"

\* an update with a caller's fragment, done
C27_WitnessFragment ==
  /\ upc = "done"
  /\ Has(updOptions, "UpdateExpression")
  /\ Has(updOptions, "ExpressionAttributeNames")
  /\ Has(updOptions, "ExpressionAttributeValues")
  /\ updParams.UpdateExpression # updOptions.UpdateExpression

----------------------------------------------------------------------------
\* The log of createTables, by model.
Models == 1..nmodels
Started == {tlog[i].model : i \in DOMAIN tlog}
LogOf(k) == SelectSeq(tlog, LAMBDA e : e.model = k)
CallsIn(log, op) ==
  {i \in DOMAIN log : log[i].ev = "call" /\ log[i].op = op}
Sends(log) == {i \in DOMAIN log : log[i].ev \in {"call", "request"}}
NoTable == {NoDescription} \cup Failures
Steps == {"createTable", "updateTable"}
StepOf(log) == {i \in DOMAIN log : log[i].ev = "call" /\ log[i].op \in Steps}

\* C28: for each model the first thing createTables does is one call of
\* describeTable; when that call has been answered, createTable is called if
\* it failed or returned no description and updateTable is called if it
\* returned one, as the very next thing; a model gets one of the two calls
\* at most, once.
C28_DescribeThenCreateOrUpdate ==
  \A k \in Started :
    LET log == LogOf(k)
    IN /\ log[1] = Called(k, "describeTable")
       /\ Cardinality(StepOf(log)) <= 1
       /\ StepOf(log) \subseteq {3}
       /\ Len(log) >= 2 =>
            /\ log[2].ev = "answer" /\ log[2].op = "describeTable"
            /\ Len(log) >= 3
            /\ log[3] = Called(k, IF log[2].with \in NoTable
                                  THEN "createTable" ELSE "updateTable")

\* two models, done: the describeTable of the first failed and the table was
\* created, the second was described and updated
C28_Witness ==
  /\ tpc = "done" /\ nmodels = 2
  /\ LogOf(1)[2].with \in Failures
  /\ CallsIn(LogOf(1), "createTable") = {3}
  /\ LogOf(2)[2].with = Description("PENDING")
  /\ CallsIn(LogOf(2), "updateTable") = {3}
  /\ CallsIn(LogOf(2), "createTable") = {}

\* the case of the test: describeTable returned nothing, createTable
C28_WitnessCreated ==
  /\ tpc = "done" /\ nmodels = 1
  /\ LogOf(1)[2].with = NoDescription
  /\ CallsIn(LogOf(1), "createTable") = {3}
  /\ Cardinality(CallsIn(LogOf(1), "describeTable")) = 3

----------------------------------------------------------------------------
\* the polls of a model: its calls of describeTable after the first one
PollsOf(log) == CallsIn(log, "describeTable") \ {1}
FirstPoll(log) == CHOOSE i \in PollsOf(log) : \A j \in PollsOf(log) : i <= j
NotActive == {Description(s) : s \in Statuses \ {"ACTIVE"}}
IsPollAnswer(log, i) ==
  /\ i - 1 \in PollsOf(log)
  /\ log[i].ev = "answer"

\* C29: when createTables has completed, every model has a poll, a call of
\* describeTable made after its createTable or updateTable, that returned
\* the status ACTIVE; a poll that returned another status is followed by a
\* wait and then by the next poll; every poll but the first of a model comes
\* right after a wait, and the first comes without one, right after the
\* answer of the create or update step.
C29_ActiveBeforeDone ==
  \A k \in Started :
    LET log == LogOf(k)
    IN /\ (tpc = "done" \/ tat > k) =>
            /\ IsPollAnswer(log, Len(log))
            /\ log[Len(log)].with = Description("ACTIVE")
            /\ Len(log) - 1 > 3
       /\ \A i \in DOMAIN log :
            /\ (IsPollAnswer(log, i) /\ log[i].with \in NotActive) =>
                 /\ Len(log) > i /\ log[i + 1] = Waited(k)
                 /\ Len(log) > i + 1 => i + 2 \in PollsOf(log)
            /\ i \in PollsOf(log) =>
                 /\ i > 3
                 /\ i # FirstPoll(log) =>
                      /\ log[i - 1] = Waited(k)
                      /\ IsPollAnswer(log, i - 2)
                 /\ i = FirstPoll(log) =>
                      /\ log[i - 1].ev = "answer"
                      /\ log[i - 1].op \in Steps \cup {"describeTable"}
                      /\ ~IsPollAnswer(log, i - 1)
            /\ log[i].ev = "wait" => IsPollAnswer(log, i - 1)

\* the run of the test: no table, createTable, a poll that returns PENDING,
\* a wait, a poll that returns ACTIVE
C29_Witness ==
  /\ tpc = "done"
  /\ tlog = <<Called(1, "describeTable"),
              Replied(1, "describeTable", NoDescription),
              Called(1, "createTable"),
              Replied(1, "createTable", NoDescription),
              Called(1, "describeTable"),
              Replied(1, "describeTable", Description("PENDING")),
              Waited(1),
              Called(1, "describeTable"),
              Replied(1, "describeTable", Description("ACTIVE"))>>

\* a table that was updated with two indexes and polled three times
C29_WitnessUpdated ==
  /\ tpc = "done" /\ nmodels = 1
  /\ CallsIn(tlog, "updateTable") = {3}
  /\ Cardinality({i \in DOMAIN tlog : tlog[i] = Requested(1, "updateTable")}) = 2
  /\ Cardinality(PollsOf(tlog)) = 3
  /\ Cardinality({i \in DOMAIN tlog : tlog[i] = Waited(1)}) = 2

----------------------------------------------------------------------------
\* the first event of a model in the log: the call of its first describeTable
FirstOf(k) ==
  CHOOSE i \in DOMAIN tlog :
    tlog[i].model = k /\ \A j \in DOMAIN tlog : tlog[j].model = k => i <= j

\* the failures that count: an answer that is an error, to anything but the
\* first describeTable of a model
FailedAt ==
  {i \in DOMAIN tlog : /\ tlog[i].ev = "answer"
                       /\ tlog[i].with \in Failures
                       /\ i # FirstOf(tlog[i].model) + 1}
FirstFailure == CHOOSE i \in FailedAt : \A j \in FailedAt : i <= j
ObservedActive(k, i) ==
  \E j \in 2..(i - 1) :
    /\ tlog[j] = Replied(k, "describeTable", Description("ACTIVE"))
    /\ tlog[j - 1] = Called(k, "describeTable")
    /\ j - 1 > FirstOf(k)

\* C30: the models are taken in the order of their keys, one after another:
\* nothing is called or sent for a model before the model before it has
\* answered a poll with ACTIVE.  When createTable, a request of updateTable
\* or a polling describeTable fails, createTables fails with that error and
\* from then on nothing is called or sent, for that model or a later one.
C30_OneByOneUntilFailure ==
  /\ Started = 1..tat
  /\ \A i \in Sends(tlog) :
       /\ \A j \in Sends(tlog) : i < j => tlog[i].model <= tlog[j].model
       /\ tlog[i].model > 1 => ObservedActive(tlog[i].model - 1, i)
  /\ FailedAt # {} =>
       /\ tpc = "failed"
       /\ terror = tlog[FirstFailure].with
       /\ \A j \in Sends(tlog) : j < FirstFailure
       /\ Started = 1..tlog[FirstFailure].model

\* the run of the test: createTable fails, after one describeTable; nothing
\* is called for the second model
C30_Witness ==
  /\ tpc = "failed" /\ nmodels = 2
  /\ terror \in Failures
  /\ tlog = <<Called(1, "describeTable"),
              Replied(1, "describeTable", NoDescription),
              Called(1, "createTable"),
              Replied(1, "createTable", terror)>>

\* the run of the other test: the second poll fails
C30_WitnessPolling ==
  /\ tpc = "failed" /\ terror \in Failures
  /\ Len(tlog) = 9
  /\ tlog[6] = Replied(1, "describeTable", Description("PENDING"))
  /\ tlog[9] = Replied(1, "describeTable", terror)
  /\ Cardinality(CallsIn(tlog, "describeTable")) = 3

\* the second model fails in updateTable, with the first of two errors; the
\* other answer comes when createTables has failed already
C30_WitnessSecondModel ==
  /\ tpc = "failed" /\ nmodels = 2 /\ tat = 2 /\ tout = 0
  /\ Cardinality(FailedAt) = 2
  /\ terror = tlog[FirstFailure].with
  /\ terror # tlog[Len(tlog)].with
  /\ tlog[Len(tlog)] \in {Replied(2, "updateTable", e) : e \in Failures}

----------------------------------------------------------------------------
\* what exec() has to register for one dimension of a scaler
TargetOf(sc, range, dimension) ==
  [MinCapacity |-> range.min,
   MaxCapacity |-> range.max,
   RoleARN |-> sc.role,
   ResourceId |-> IF Has(sc, "indexName") THEN "table/accounts/index/myindex"
                  ELSE "table/accounts",
   ScalableDimension |-> dimension,
   ServiceNamespace |-> "dynamodb"]
ReadDimension(sc) ==
  IF Has(sc, "indexName") THEN "dynamodb:index:ReadCapacityUnits"
  ELSE "dynamodb:table:ReadCapacityUnits"
WriteDimension(sc) ==
  IF Has(sc, "indexName") THEN "dynamodb:index:WriteCapacityUnits"
  ELSE "dynamodb:table:WriteCapacityUnits"
Executed == scpc \in {"registering", "done", "failed"}

\* C31: exec() registers one scalable target for each capacity that is
\* configured, the one for reads before the one for writes, and none when
\* neither is configured; a target has the min and max of the configured
\* range, the role as RoleARN, the resource table/<tableName>, with
\* /index/<indexName> added when an index name is set, and a dimension of
\* kind index exactly when an index name is set.
C31_OneTargetPerCapacity ==
  Executed =>
    LET rd == Has(scaler, "readCapacity")
        wr == Has(scaler, "writeCapacity")
    IN /\ Len(scTargets) = (IF rd THEN 1 ELSE 0) + (IF wr THEN 1 ELSE 0)
       /\ rd => scTargets[1] =
                  TargetOf(scaler, scaler.readCapacity, ReadDimension(scaler))
       /\ wr => scTargets[Len(scTargets)] =
                  TargetOf(scaler, scaler.writeCapacity, WriteDimension(scaler))

\* the run of the test 'should autoscale index'
C31_Witness ==
  /\ scpc = "done"
  /\ scTargets =
       <<[MinCapacity |-> 1, MaxCapacity |-> 5,
          ResourceId |-> "table/accounts/index/myindex", RoleARN |-> "myrole",
          ScalableDimension |-> "dynamodb:index:ReadCapacityUnits",
          ServiceNamespace |-> "dynamodb"],
         [MinCapacity |-> 2, MaxCapacity |-> 6,
          ResourceId |-> "table/accounts/index/myindex", RoleARN |-> "myrole",
          ScalableDimension |-> "dynamodb:index:WriteCapacityUnits",
          ServiceNamespace |-> "dynamodb"]>>

\* a scaler of a table with a write capacity only, and one with none
C31_WitnessWriteOnly ==
  /\ scpc = "done" /\ Len(scTargets) = 1
  /\ scTargets[1].ScalableDimension = "dynamodb:table:WriteCapacityUnits"
  /\ scTargets[1].ResourceId = "table/accounts"
C31_WitnessNone ==
  /\ scpc = "done" /\ scTargets = <<>> /\ Has(scaler, "indexName")

----------------------------------------------------------------------------
Constructed == scpc \notin {"none", "idle"}

\* C39: a call of Scaler(options) without new returns: it throws nothing,
\* and what it returns holds the options, as new Scaler(options) does.
C39_PlainCallReturnsScaler ==
  (Constructed /\ ~scNew) => (scpc # "threw" /\ scaler # NoValue)

\* what holds instead: with new the instance holds the options it was given
\* when the constructor returns; without new the call never returns one
C39_OnlyNewReturnsScaler ==
  /\ (Constructed /\ ~scNew) =>
       (scpc = "threw" /\ scError = RangeError /\ scaler = NoValue)
  /\ (Constructed /\ scNew) => (scpc # "threw" /\ scaler # NoValue)
  /\ [][scpc = "idle" /\ scNew => scaler' = scArg]_vars

----------------------------------------------------------------------------
\* the pages merged that carried a cursor, by their place
Carrying == {i \in DOMAIN responses : Has(responses[i], "LastEvaluatedKey")}
LastCarrying == CHOOSE i \in Carrying : \A j \in Carrying : j <= i

\* C32: the LastEvaluatedKey of the aggregate exec() resolves with is the
\* one of the last merged page that carried one, and the aggregate has none
\* exactly when no merged page carried one; after a loadAll run of several
\* pages it is the cursor of the page before the last.
C32_LastCursorKept ==
  pc = "done" =>
    /\ Has(result, "LastEvaluatedKey") <=> Carrying # {}
    /\ Carrying # {} =>
         result.LastEvaluatedKey = responses[LastCarrying].LastEvaluatedKey
    /\ (loadAll /\ Len(responses) > 1) =>
         /\ LastCarrying = Len(responses) - 1
         /\ result.LastEvaluatedKey =
              responses[Len(responses) - 1].LastEvaluatedKey

\* a loadAll run of three pages whose two cursors differ
C32_Witness ==
  /\ pc = "done" /\ loadAll /\ Len(responses) = 3
  /\ responses[1].LastEvaluatedKey = "c2"
  /\ responses[2].LastEvaluatedKey = "c1"
  /\ result.LastEvaluatedKey = "c1"

\* one page without a cursor: the aggregate has none
C32_WitnessAbsent ==
  /\ pc = "done" /\ Len(responses) = 1
  /\ ~Has(result, "LastEvaluatedKey")

----------------------------------------------------------------------------
\* C33: the first request of every exec() has no ExclusiveStartKey, also
\* when the exec() before it on the same builder ended on a page with a
\* cursor.
C33_FirstRequestFromStart ==
  sent # <<>> => ~Has(sent[1], "ExclusiveStartKey")

\* what holds instead: the first request of the first exec() on a new
\* builder has none, and the first request of every exec() is the builder's
\* request as the calls before left it
C33_FirstRequestOfBuilder ==
  /\ (execs = 1 /\ sent # <<>>) => ~Has(sent[1], "ExclusiveStartKey")
  /\ [][execs' = execs + 1 => sent' = <<buildRequest(opRequest)>>]_vars

\* a second exec() that starts at the cursor the first one ended on
C33_WitnessResumed ==
  /\ execs = 2 /\ Len(sent) = 1
  /\ Has(sent[1], "ExclusiveStartKey")

----------------------------------------------------------------------------
\* What a call of exec() sends when it runs alone, told from its own
\* answers: after a page with a cursor the request with that start key,
\* after a retryable error the request it sent before.
Alone(snt, outs) ==
  \A k \in 2..Len(snt) :
    StartKeyOf(snt[k]) = IF IsPage(outs[k - 1]) THEN CursorOf(outs[k - 1])
                         ELSE StartKeyOf(snt[k - 1])
PagesOf(outs) ==
  LET pages == SelectSeq(outs, IsPage)
  IN [i \in DOMAIN pages |-> pages[i].page]
Overlapping == pc = "wait" /\ exec2.pc = "wait"

\* C34: two calls of exec() on one builder that overlap do not touch each
\* other's request document: each sends what it would send alone.
C34_AsIfAlone ==
  /\ Alone(sent, outcomes)
  /\ Alone(exec2.sent, exec2.outcomes)

\* what holds instead: the locals are a call's own, so what a call resolves
\* with is the merge of the pages it was answered with; and a call's
\* request is always built from the builder the two calls share
C34_OwnPagesSharedBuilder ==
  /\ pc = "done" => result = mergeResults(PagesOf(outcomes), TableName)
  /\ exec2.pc = "done" =>
       exec2.result = mergeResults(PagesOf(exec2.outcomes), TableName)
  /\ [][/\ Len(sent') = Len(sent) + 1 =>
             sent'[Len(sent')] = buildRequest(opRequest')
        /\ Len(exec2.sent') = Len(exec2.sent) + 1 =>
             exec2.sent'[Len(exec2.sent')] = buildRequest(opRequest')]_vars

\* both calls in flight, the second about to retry a request that the
\* first call's page has changed under it
C34_WitnessOverlap ==
  /\ Overlapping
  /\ Len(exec2.sent) = 2 /\ IsRetryableError(exec2.outcomes[1])
  /\ StartKeyOf(exec2.sent[1]) = Null
  /\ StartKeyOf(exec2.sent[2]) = "c1"

----------------------------------------------------------------------------
\* every request of exec() has one answer, but the one in flight
OneAnswerEach == Len(sent) = Len(outcomes) + (IF pc = "wait" THEN 1 ELSE 0)
\* a retryable error is answered by sending the request again
ResentAfter(i) == Len(sent) > i /\ sent[i + 1] = sent[i]
BatchResentAfter(i) ==
  NextCall(i) # 0 /\ bsent[NextCall(i)].request = bsent[i].request
ExecEnded == pc \in {"done", "failed"}
GetItemsEnded == gpc \in {"done", "failed"}

\* C35: a request that fails with a retryable error is sent again, however
\* often it has failed before, in exec() and in getItems, and no request is
\* sent but the first and one for each answer: a request that fails k times
\* and then succeeds makes k + 1 calls.  With a gateway that answers and in
\* the end answers without retryable errors, cursors or unprocessed keys,
\* exec() and getItems come to an end.
C35_RetriedUntilAnswered ==
  /\ [](/\ OneAnswerEach
        /\ \A i \in DOMAIN outcomes :
             IsRetryableError(outcomes[i]) => ResentAfter(i)
        /\ \A i \in DOMAIN bsent : AnsweredRetryable(i) => BatchResentAfter(i)
        /\ \A i \in DOMAIN bsent : Answered(i) \/ bucket[bsent[i].bucket].at = i)
  /\ (pc = "wait") ~> ExecEnded
  /\ (gpc = "running") ~> GetItemsEnded

\* a loadAll exec(): the first request failed three times and then got its
\* page, in four calls
C35_Witness ==
  /\ pc = "done" /\ loadAll /\ Len(sent) = 4
  /\ \A i \in 1..3 : IsRetryableError(outcomes[i])
  /\ IsPage(outcomes[4])
  /\ \A i \in 1..4 : sent[i] = sent[1]

\* getItems: a batch that failed twice and then succeeded, in three calls
C35_WitnessBatch ==
  /\ gpc = "done" /\ Len(bsent) = 3
  /\ AnsweredRetryable(1) /\ AnsweredRetryable(2) /\ AnsweredOk(3)
  /\ bsent[3].request = bsent[1].request

----------------------------------------------------------------------------
LastPage == CHOOSE i \in PageIdx : \A j \in PageIdx : j <= i

\* C36: once a page of the current exec() has arrived, the builder's start
\* key is the cursor of the last page that arrived, and there is none if
\* that page had no cursor; it stays so when exec() has returned or failed.
\* So after a loadAll run that ended the builder has no start key, and
\* after a single page with a cursor the builder is at that cursor.
C36_BuilderAtLastPage ==
  /\ PageIdx # {} => StartKeyOf(opRequest) = CursorOf(outcomes[LastPage])
  /\ (pc = "done" /\ loadAll) => ~Has(opRequest, "ExclusiveStartKey")
  /\ (pc = "done" /\ ~loadAll /\ CursorOf(outcomes[LastPage]) # Null) =>
       /\ Has(opRequest, "ExclusiveStartKey")
       /\ opRequest.ExclusiveStartKey = outcomes[Len(outcomes)].page.LastEvaluatedKey

\* a loadAll run that ended after two pages: the start key set by the first
\* page is gone
C36_Witness ==
  /\ pc = "done" /\ loadAll /\ Len(responses) = 2
  /\ StartKeyOf(sent[Len(sent)]) = "c1"
  /\ ~Has(opRequest, "ExclusiveStartKey")

\* a run without loadAll left at the cursor of its page, and a loadAll run
\* that failed after a page with a cursor
C36_WitnessPositioned ==
  /\ pc = "done" /\ ~loadAll /\ execs = 1
  /\ opRequest = [ExclusiveStartKey |-> "c2"]
C36_WitnessFailed ==
  /\ pc = "failed" /\ loadAll /\ Len(responses) = 1
  /\ opRequest = [ExclusiveStartKey |-> "c1"]

----------------------------------------------------------------------------
\* What utils.paginatedRequest does with a builder whose request is request
\* and a gateway that answers with outs, one after the other: the requests
\* it sends and the pages it merges.
RECURSIVE Aggregating(_, _, _, _, _)
Aggregating(request, la, outs, snt, pages) ==
  LET sending == Append(snt, buildRequest(request))
  IN IF outs = <<>> THEN [sent |-> sending, pages |-> pages]
     ELSE LET o == Head(outs)
          IN IF o.kind = "error"
             THEN IF shouldThrow(o.err) THEN [sent |-> sending, pages |-> pages]
                  ELSE Aggregating(request, la, Tail(outs), sending, pages)
             ELSE IF whileCond(la, pageKey(o.page), FALSE)
             THEN Aggregating(afterPage(request, pageKey(o.page)), la,
                              Tail(outs), sending, collect(pages, o.page))
             ELSE [sent |-> sending, pages |-> collect(pages, o.page)]
Streaming == pc \in {"stream", "ended", "errored"} /\ sent # <<>>
Aggregate == Aggregating(sent[1], loadAll, outcomes, <<>>, <<>>)
Front(q) == SubSeq(q, 1, Len(q) - 1)

\* C37: a stream sends the requests exec() would send on the same builder
\* with the same loadAll against the same answers, with the same start keys,
\* its first request being the builder's as it is; it has pushed the pages
\* exec() would have merged, in their order.  (The stream sends its next
\* request only when it is read or its wait is over, so it may be one
\* request behind.)  What exec() would do is what a call of exec() does.
C37_StreamAsAggregating ==
  /\ [](Streaming =>
          /\ sent \in {Aggregate.sent, Front(Aggregate.sent)}
          /\ pc \in {"ended", "errored"} => sent = Aggregate.sent
          /\ PushedPages = Aggregate.pages)
  /\ []((pc \in {"wait", "done", "failed"} /\ sent # <<>>) =>
          /\ sent = Aggregate.sent
          /\ pc = "done" => responses = Aggregate.pages)
  /\ [][(pc' = "stream" /\ sent = <<>> /\ sent' # <<>>)
          => sent' = <<buildRequest(opRequest)>>]_vars

\* a loadAll stream on a builder left at a cursor: a retry and three pages
C37_Witness ==
  /\ pc = "ended" /\ loadAll /\ execs = 2
  /\ StartKeyOf(sent[1]) = "c2"
  /\ Len(sent) = 3 /\ Len(PushedPages) = 2
  /\ IsRetryableError(outcomes[1])
  /\ StartKeyOf(sent[2]) = "c2" /\ StartKeyOf(sent[3]) = "c1"

----------------------------------------------------------------------------
\* C38: once getItems has failed with the error of one bucket, no bucket
\* sends another batch-get request for that call.
C38_NothingSentAfterFailure ==
  [][gpc = "failed" => Len(bsent') = Len(bsent)]_vars

\* what holds instead: the bucket that failed sends no more, and after the
\* failure only buckets that still had a request in flight send
C38_OnlyOtherBucketsGoOn ==
  [][(gpc = "failed" /\ Len(bsent') > Len(bsent)) =>
       LET b == bsent'[Len(bsent')].bucket
       IN /\ bucket[b].st = "wait"
          /\ Len(bsent') = Len(bsent) + 1
          /\ gpc' = "failed" /\ gerror' = gerror /\ gresult' = gresult]_vars

\* getItems has failed with the error of the first bucket, and the second
\* bucket has sent another request since
C38_WitnessGoesOn ==
  /\ gpc = "failed" /\ Len(bucket) = 2
  /\ bucket[1].st = "failed" /\ AnsweredFatal(1)
  /\ arrivals[1] = 1
  /\ Len(bsent) = 3 /\ bsent[3].bucket = 2

----------------------------------------------------------------------------
\* C40: no step of Table.destroy writes to the options object of the
\* caller: with options.expected set, the object is after the call what it
\* was before it.
C40_DestroyOptionsUntouched ==
  [][method = "destroy" => crOptions' = crOptions]_vars

\* what holds instead: destroy takes expected out of the caller's options
\* as it builds its request and leaves the other entries as they were;
\* create leaves the whole object as it was
C40_DestroyDropsExpected ==
  /\ method = "destroy" =>
       IF cpc = "idle" THEN crOptions = crOptionsIn
       ELSE crOptions = Del(crOptionsIn, "expected")
  /\ method = "create" => crOptions = crOptionsIn

\* a destroy with an expected condition, done: the condition was sent and
\* the caller's object has lost it
C40_WitnessExpectedGone ==
  /\ method = "destroy" /\ cpc = "done"
  /\ Has(crOptionsIn, "expected") /\ ~Has(crOptions, "expected")
  /\ Has(crco[1].params, "ConditionExpression")

====
